---- MODULE Spec2Model ----
(***************************************************************************)
(* Model of the QI_Bot scheduling and delivery engine:                     *)
(*   qi_bot/scheduler/loop.py   (tick loop, ledger, capture trigger)       *)
(*   qi_bot/schedule/loader.py  (schedule store, cache by mtime)           *)
(*   qi_bot/schedule/resolver.py (event resolution)                        *)
(*   qi_bot/config.py           (plans, cycle, grace window)               *)
(*   qi_bot/utils/cloudfare_d1.py (insert_daily_snapshot, remote store)    *)
(*                                                                         *)
(* Representation.  A Python str is a sequence of one-character strings.   *)
(* A Python value is a record with a tag t in {"none","str","list",        *)
(* "dict"} and a payload v.  A dict is a function from key names to        *)
(* values; a missing key is a name outside DOMAIN.  A calendar date is its *)
(* proleptic Gregorian ordinal (date.toordinal()); an instant is a record  *)
(* [date, sec] with sec the wall-clock second of the day (sub-second       *)
(* resolution of datetime.now is not modelled).                            *)
(***************************************************************************)
EXTENDS Integers, Sequences, FiniteSets, Bags, TLC

(***************************************************************************)
(* Bounds of the model.                                                    *)
(***************************************************************************)
\* number of calendar dates the clock may visit, starting at FirstDate
NumDays == 2
\* number of environment events (process restarts, edits of schedule
\* files on disk, ready events after the first) in one run
MaxEnvEvents == 1

\* capture runs that may use the remote store at the same time, calls of
\* insert_daily_snapshot they make in all, and remote queries that fail
NumRuns == 2
MaxCalls == 3
MaxQueryFailures == 1

\* largest modification time a schedule file gets in the schedule store
\* specification (files start with modification time 1)
MaxMtime == 2

(***************************************************************************)
(* qi_bot/config.py                                                        *)
(***************************************************************************)
CYCLE_LENGTH == 14
SEND_MISSED_WITHIN_MINUTES == 10

\* datetime.date: days before the first day of year y
DaysBeforeYear(y) ==
    LET p == y - 1 IN p * 365 + (p \div 4) - (p \div 100) + (p \div 400)

IsLeap(y) == (y % 4 = 0) /\ ((y % 100 # 0) \/ (y % 400 = 0))

DaysInMonth(y, m) ==
    IF m = 2 THEN (IF IsLeap(y) THEN 29 ELSE 28)
    ELSE IF m \in {4, 6, 9, 11} THEN 30 ELSE 31

RECURSIVE DaysBeforeMonth(_, _)
DaysBeforeMonth(y, m) ==
    IF m = 1 THEN 0 ELSE DaysBeforeMonth(y, m - 1) + DaysInMonth(y, m - 1)

\* date(y, m, d).toordinal()
ToOrdinal(y, m, d) == DaysBeforeYear(y) + DaysBeforeMonth(y, m) + d

\* settings.CYCLE_START_DATE = date.fromisoformat("2025-10-16")
CYCLE_START_DATE == ToOrdinal(2025, 10, 16)

\* the two plans of DEFAULT_SCHEDULE_PLANS, in configuration order
SCHEDULE_PLANS ==
    << [name |-> "alch", schedule_file |-> "messages_alch.json",
        channel_ids |-> << "1459513547867295918", "1453801024727814275" >>],
       [name |-> "linnun", schedule_file |-> "messages_linnun_short.json",
        channel_ids |-> << "1432327080749568000", "1433087490587230349" >> ] >>

PlanIdx == 1 .. Len(SCHEDULE_PLANS)

D1_STATUS_CHANNEL_ID == "1459513631271031028"

(***************************************************************************)
(* Python str and int() as used on the "time" field.                       *)
(***************************************************************************)
Str(s) == [t |-> "str", v |-> s]
NoneV == [t |-> "none", v |-> << >>]

DigitVal(c) ==
    CASE c = "0" -> 0 [] c = "1" -> 1 [] c = "2" -> 2 [] c = "3" -> 3
      [] c = "4" -> 4 [] c = "5" -> 5 [] c = "6" -> 6 [] c = "7" -> 7
      [] c = "8" -> 8 [] c = "9" -> 9 [] OTHER -> -1

IsDigit(c) == DigitVal(c) >= 0

\* code point of a character (the characters the model's documents use)
Ord(c) ==
    CASE c = " " -> 32 [] c = "+" -> 43 [] c = "-" -> 45 [] c = ":" -> 58
      [] c = "x" -> 120
      [] OTHER -> 48 + DigitVal(c)

\* s < t for Python str: lexicographic by code point, a proper prefix is smaller
RECURSIVE StrLess(_, _)
StrLess(s, t) ==
    IF t = << >> THEN FALSE
    ELSE IF s = << >> THEN TRUE
    ELSE IF Ord(Head(s)) # Ord(Head(t)) THEN Ord(Head(s)) < Ord(Head(t))
    ELSE StrLess(Tail(s), Tail(t))

\* s.split(sep) for a one-character separator
RECURSIVE SplitAcc(_, _, _)
SplitAcc(s, sep, cur) ==
    IF s = << >> THEN << cur >>
    ELSE IF Head(s) = sep THEN << cur >> \o SplitAcc(Tail(s), sep, << >>)
    ELSE SplitAcc(Tail(s), sep, Append(cur, Head(s)))

Split(s, sep) == SplitAcc(s, sep, << >>)

RECURSIVE LStrip(_)
LStrip(s) == IF s # << >> /\ Head(s) = " " THEN LStrip(Tail(s)) ELSE s

RECURSIVE RStrip(_)
RStrip(s) ==
    IF s # << >> /\ s[Len(s)] = " " THEN RStrip(SubSeq(s, 1, Len(s) - 1)) ELSE s

Strip(s) == RStrip(LStrip(s))

RECURSIVE DigitsValue(_, _)
DigitsValue(s, acc) ==
    IF s = << >> THEN acc ELSE DigitsValue(Tail(s), acc * 10 + DigitVal(Head(s)))

\* int(s): surrounding blanks and one sign are accepted, then digits only;
\* anything else raises ValueError (ok = FALSE)
PyInt(s) ==
    LET b == Strip(s)
        signed == b # << >> /\ Head(b) \in {"+", "-"}
        ds == IF signed THEN Tail(b) ELSE b
        good == ds # << >> /\ \A i \in 1 .. Len(ds) : IsDigit(ds[i])
    IN IF ~good THEN [ok |-> FALSE, v |-> 0]
       ELSE [ok |-> TRUE,
             v |-> IF signed /\ Head(b) = "-" THEN 0 - DigitsValue(ds, 0)
                   ELSE DigitsValue(ds, 0)]

(***************************************************************************)
(* Python dicts.                                                           *)
(***************************************************************************)
EmptyDict == [k \in {} |-> NoneV]

\* d.get(k) (None when the key is missing)
Get(d, k) == IF k \in DOMAIN d THEN d[k] ELSE NoneV

\* d without key k (d.pop(k, None) leaves this behind)
Pop(d, k) == [x \in (DOMAIN d) \ {k} |-> d[x]]

\* a.update(b): the entries of b win
Update(a, b) ==
    [x \in (DOMAIN a) \cup (DOMAIN b) |-> IF x \in DOMAIN b THEN b[x] ELSE a[x]]

\* truth value of a Python value
Truthy(x) ==
    CASE x.t = "none" -> FALSE
      [] x.t = "str" -> x.v # << >>
      [] x.t = "list" -> x.v # << >>
      [] x.t = "dict" -> DOMAIN x.v # {}
      [] x.t = "int" -> x.v # 0
      [] OTHER -> TRUE

(***************************************************************************)
(* qi_bot/schedule/resolver.py                                             *)
(***************************************************************************)
\* index of the first "}" of s, 0 when there is none
RECURSIVE FindClose(_, _)
FindClose(s, i) ==
    IF i > Len(s) THEN 0 ELSE IF s[i] = "}" THEN i ELSE FindClose(s, i + 1)

\* text.format(**vars) for replacement fields that are plain names:
\* "{{" and "}}" are literal braces, "{name}" is replaced by vars[name];
\* a single brace, an empty or numeric field (no positional arguments are
\* passed) or a missing name raises (ok = FALSE)
RECURSIVE FormatAcc(_, _, _)
FormatAcc(s, vars, acc) ==
    IF s = << >> THEN [ok |-> TRUE, v |-> acc]
    ELSE IF Head(s) = "{" THEN
        IF Len(s) >= 2 /\ s[2] = "{" THEN
            FormatAcc(SubSeq(s, 3, Len(s)), vars, Append(acc, "{"))
        ELSE
            LET c == FindClose(s, 2)
                name == SubSeq(s, 2, c - 1)
            IN IF c = 0 \/ name = << >> \/ "{" \in {name[i] : i \in 1 .. Len(name)}
                  \/ (\A i \in 1 .. Len(name) : IsDigit(name[i]))
                  \/ name \notin DOMAIN vars
               THEN [ok |-> FALSE, v |-> << >>]
               ELSE FormatAcc(SubSeq(s, c + 1, Len(s)), vars, acc \o vars[name].v)
    ELSE IF Head(s) = "}" THEN
        IF Len(s) >= 2 /\ s[2] = "}" THEN
            FormatAcc(SubSeq(s, 3, Len(s)), vars, Append(acc, "}"))
        ELSE [ok |-> FALSE, v |-> << >>]
    ELSE FormatAcc(Tail(s), vars, Append(acc, Head(s)))

Format(s, vars) == FormatAcc(s, vars, << >>)

\* resolve_event whose merge lets the fields of the template win
resolve_event_template_wins(event, schedule_data) ==
    LET tmpl_name == Get(event, "use")
        out0 == Pop(event, "use")
        tmpl == Get(Get(schedule_data, "templates").v, tmpl_name.v)
        out1 == IF Truthy(tmpl_name) /\ Truthy(tmpl) THEN Update(out0, tmpl.v)
                ELSE out0
        out2 == IF "image" \in DOMAIN out1 /\ out1["image"].t = "none"
                THEN Pop(out1, "image") ELSE out1
        vars_dict == Get(out2, "vars")
        out3 == Pop(out2, "vars")
    IN IF vars_dict.t = "dict" /\ Get(out3, "text").t = "str"
       THEN LET f == Format(out3["text"].v, vars_dict.v)
            IN IF f.ok THEN [out3 EXCEPT !["text"] = Str(f.v)] ELSE out3
       ELSE out3

\* resolve_event without the try block around format: the exception takes
\* the place of the text
resolve_event_format_unguarded(event, schedule_data) ==
    LET tmpl_name == Get(event, "use")
        out0 == Pop(event, "use")
        tmpl == Get(Get(schedule_data, "templates").v, tmpl_name.v)
        out1 == IF Truthy(tmpl_name) /\ Truthy(tmpl) THEN Update(tmpl.v, out0)
                ELSE out0
        out2 == IF "image" \in DOMAIN out1 /\ out1["image"].t = "none"
                THEN Pop(out1, "image") ELSE out1
        vars_dict == Get(out2, "vars")
        out3 == Pop(out2, "vars")
    IN IF vars_dict.t = "dict" /\ Get(out3, "text").t = "str"
       THEN LET f == Format(out3["text"].v, vars_dict.v)
            IN IF f.ok THEN [out3 EXCEPT !["text"] = Str(f.v)]
               ELSE [out3 EXCEPT !["text"] = [t |-> "exception", v |-> << >>]]
       ELSE out3

\* resolve_event that removes a null image from the event before the merge
resolve_event_null_removed_first(event, schedule_data) ==
    LET tmpl_name == Get(event, "use")
        out0 == Pop(IF "image" \in DOMAIN event /\ event["image"].t = "none"
                    THEN Pop(event, "image") ELSE event, "use")
        tmpl == Get(Get(schedule_data, "templates").v, tmpl_name.v)
        out2 == IF Truthy(tmpl_name) /\ Truthy(tmpl) THEN Update(tmpl.v, out0)
                ELSE out0
        vars_dict == Get(out2, "vars")
        out3 == Pop(out2, "vars")
    IN IF vars_dict.t = "dict" /\ Get(out3, "text").t = "str"
       THEN LET f == Format(out3["text"].v, vars_dict.v)
            IN IF f.ok THEN [out3 EXCEPT !["text"] = Str(f.v)] ELSE out3
       ELSE out3

\* resolve_event(event, schedule_data)
resolve_event(event, schedule_data) ==
    LET tmpl_name == Get(event, "use")
        out0 == Pop(event, "use")
        tmpl == Get(Get(schedule_data, "templates").v, tmpl_name.v)
        out1 == IF Truthy(tmpl_name) /\ Truthy(tmpl) THEN Update(tmpl.v, out0)
                ELSE out0
        out2 == IF "image" \in DOMAIN out1 /\ out1["image"].t = "none"
                THEN Pop(out1, "image") ELSE out1
        vars_dict == Get(out2, "vars")
        out3 == Pop(out2, "vars")
    IN IF vars_dict.t = "dict" /\ Get(out3, "text").t = "str"
       THEN LET f == Format(out3["text"].v, vars_dict.v)
            IN IF f.ok THEN [out3 EXCEPT !["text"] = Str(f.v)] ELSE out3
       ELSE out3

\* paths that exist on the local file system
FilesOnDisk == { << "x", ".", "p", "n", "g" >> }

RECURSIVE ExistingOf(_)
ExistingOf(paths) ==
    IF paths = << >> THEN << >>
    ELSE (IF Head(paths).v \in FilesOnDisk THEN << Head(paths).v >> ELSE << >>)
         \o ExistingOf(Tail(paths))

\* collect_files(image_field)
collect_files(image_field) ==
    IF ~Truthy(image_field) THEN << >>
    ELSE ExistingOf(IF image_field.t = "list" THEN image_field.v
                    ELSE << image_field >>)

(***************************************************************************)
(* Schedule documents.  A document is the dict json.loads returns; the     *)
(* keys of "days" are written as the integers n whose str(n) is the JSON   *)
(* key; the elements of an event list are the event dicts themselves.      *)
(***************************************************************************)
T1000 == << "1", "0", ":", "0", "0" >>
T1010 == << "1", "0", ":", "1", "0" >>
T0961 == << "0", "9", ":", "6", "1" >>
T0930 == << "0", "9", ":", "3", "0" >>
T0000 == << "0", "0", ":", "0", "0" >>
T2355 == << "2", "3", ":", "5", "5" >>
T2500 == << "2", "5", ":", "0", "0" >>
TNonNum == << " ", "x", ":", "x" >>

Ev(time, text) == [time |-> Str(time), text |-> Str(text)]

ListV(l) == [t |-> "list", v |-> l]
DictV(d) == [t |-> "dict", v |-> d]

\* the first date the clock of the model shows: the day before the cycle
\* start, so that the dates of the model have cycle days 14, 1, 2, ...
FirstDate == CYCLE_START_DATE - 1

\* day numbers that carry events in the model's documents
DocDays == {14, 1}

\* a document with the same DaySpec on every day of DocDays
Doc(dayspec, templates) ==
    [days |-> DictV([d \in DocDays |-> dayspec]), templates |-> DictV(templates)]

EmptyDoc == [days |-> DictV(EmptyDict), templates |-> DictV(EmptyDict)]

TemplateT == << "T" >>

\* the documents a schedule file may hold, by name
DocOf(id) ==
    CASE id = "good" -> Doc(ListV(<< Ev(T1000, << "A" >>) >>), EmptyDict)
      [] id = "empty" -> Doc(ListV(<< Ev(T1000, << " " >>) >>), EmptyDict)
      [] id = "pair" ->
           Doc(DictV([events |-> ListV(<<
                   Ev(T1010, << "B" >>),
                   [time |-> Str(T1000), use |-> Str(TemplateT),
                    vars |-> DictV([k \in {<< "n" >>} |-> Str(<< "Q" >>)])] >>)]),
               [k \in {TemplateT} |->
                   DictV([text |-> Str(<< "A", "{", "n", "}" >>),
                          image |-> Str(<< "x", ".", "p", "n", "g" >>)])])
      [] id = "earlier" ->
           Doc(ListV(<< Ev(T1000, << "A" >>), Ev(T0930, << "B" >>) >>), EmptyDict)
      [] id = "midnight" ->
           Doc(ListV(<< Ev(T0000, << "A" >>) >>), EmptyDict)
      [] id = "late" ->
           Doc(ListV(<< Ev(T2355, << "A" >>) >>), EmptyDict)
      [] id = "nokey" ->
           Doc(ListV(<< [text |-> Str(<< "B" >>)], Ev(T1000, << "A" >>) >>), EmptyDict)
      [] id = "nonnum" ->
           Doc(ListV(<< Ev(T1000, << "A" >>), Ev(TNonNum, << "B" >>) >>), EmptyDict)
      [] id = "hour25" ->
           Doc(ListV(<< Ev(T2500, << "B" >>), Ev(T1000, << "A" >>) >>), EmptyDict)
      [] id = "minute61" ->
           Doc(ListV(<< Ev(T1000, << "A" >>), Ev(T0961, << "B" >>) >>), EmptyDict)
      [] OTHER -> EmptyDoc

\* contents a schedule file of plan p may have on disk: a document name,
\* "malformed" (json.loads raises) or "missing" (path.exists() is false)
FileContents(p) ==
    IF p = 1
    THEN {"good", "empty", "pair", "nokey", "nonnum", "hour25", "minute61",
          "malformed", "missing"}
    ELSE {"good", "malformed"}

\* contents of the schedule file of plan p when the process first starts
InitContents(p) == IF p = 1 THEN FileContents(p) \ {"good"} ELSE FileContents(p)

(***************************************************************************)
(* qi_bot/schedule/loader.py                                               *)
(***************************************************************************)
\* cache entry of a path that was never loaded / mtime of such a path
NoEntry == "NOENTRY"
NoMtime == -1

\* _load_single_schedule without the test "if not path.exists()": the
\* stat of a missing file raises
load_single_schedule_no_exists_test(st, file, p, force) ==
    IF file.doc = "missing"
    THEN [cache |-> st.cache, mtimes |-> st.mtimes, err |-> "FileNotFoundError",
          read |-> FALSE]
    ELSE IF ~force /\ st.mtimes[p] = file.mtime /\ st.cache[p] # NoEntry
    THEN [cache |-> st.cache, mtimes |-> st.mtimes, err |-> "none",
          read |-> FALSE]
    ELSE IF file.doc = "malformed"
    THEN [cache |-> st.cache, mtimes |-> st.mtimes, err |-> "JSONDecodeError",
          read |-> TRUE]
    ELSE [cache |-> [st.cache EXCEPT ![p] = file.doc],
          mtimes |-> [st.mtimes EXCEPT ![p] = file.mtime], err |-> "none",
          read |-> TRUE]

\* _load_single_schedule without the test "prev_mtime == mtime": every call
\* reads the file
load_single_schedule_no_mtime_test(st, file, p, force) ==
    IF file.doc = "missing"
    THEN [cache |-> [st.cache EXCEPT ![p] = "EMPTY"],
          mtimes |-> [st.mtimes EXCEPT ![p] = 0], err |-> "none",
          read |-> FALSE]
    ELSE IF file.doc = "malformed"
    THEN [cache |-> st.cache, mtimes |-> st.mtimes, err |-> "JSONDecodeError",
          read |-> TRUE]
    ELSE [cache |-> [st.cache EXCEPT ![p] = file.doc],
          mtimes |-> [st.mtimes EXCEPT ![p] = file.mtime], err |-> "none",
          read |-> TRUE]

\* _load_single_schedule that stores the modification time before it parses
load_single_schedule_mtime_before_parse(st, file, p, force) ==
    IF file.doc = "missing"
    THEN [cache |-> [st.cache EXCEPT ![p] = "EMPTY"],
          mtimes |-> [st.mtimes EXCEPT ![p] = 0], err |-> "none",
          read |-> FALSE]
    ELSE IF ~force /\ st.mtimes[p] = file.mtime /\ st.cache[p] # NoEntry
    THEN [cache |-> st.cache, mtimes |-> st.mtimes, err |-> "none",
          read |-> FALSE]
    ELSE IF file.doc = "malformed"
    THEN [cache |-> st.cache, mtimes |-> [st.mtimes EXCEPT ![p] = file.mtime],
          err |-> "JSONDecodeError", read |-> TRUE]
    ELSE [cache |-> [st.cache EXCEPT ![p] = file.doc],
          mtimes |-> [st.mtimes EXCEPT ![p] = file.mtime], err |-> "none",
          read |-> TRUE]

\* _load_single_schedule(path, force) on store st = [cache, mtimes] with
\* the file of plan p as found on disk; err names the exception raised,
\* read tells whether path.read_text was called
load_single_schedule(st, file, p, force) ==
    IF file.doc = "missing"
    THEN [cache |-> [st.cache EXCEPT ![p] = "EMPTY"],
          mtimes |-> [st.mtimes EXCEPT ![p] = 0], err |-> "none",
          read |-> FALSE]
    ELSE IF ~force /\ st.mtimes[p] = file.mtime /\ st.cache[p] # NoEntry
    THEN [cache |-> st.cache, mtimes |-> st.mtimes, err |-> "none",
          read |-> FALSE]
    ELSE IF file.doc = "malformed"
    THEN [cache |-> st.cache, mtimes |-> st.mtimes, err |-> "JSONDecodeError",
          read |-> TRUE]
    ELSE [cache |-> [st.cache EXCEPT ![p] = file.doc],
          mtimes |-> [st.mtimes EXCEPT ![p] = file.mtime], err |-> "none",
          read |-> TRUE]

\* get_schedule_data(schedule_file): loads the path when it has no entry
get_schedule_data(st, file, p) ==
    IF st.cache[p] = NoEntry THEN load_single_schedule(st, file, p, TRUE)
    ELSE [cache |-> st.cache, mtimes |-> st.mtimes, err |-> "none",
          read |-> FALSE]

\* sorted(events, key=lambda e: e["time"]): stable insertion by str order
RECURSIVE InsertByTime(_, _)
InsertByTime(sorted, e) ==
    IF sorted = << >> THEN << e >>
    ELSE IF StrLess(e["time"].v, Head(sorted)["time"].v)
    THEN << e >> \o sorted
    ELSE << Head(sorted) >> \o InsertByTime(Tail(sorted), e)

RECURSIVE SortByTime(_, _)
SortByTime(events, acc) ==
    IF events = << >> THEN acc
    ELSE SortByTime(Tail(events), InsertByTime(acc, Head(events)))

\* the events of day_number in document data, as get_events_for_day
\* returns them; err is the exception sorted() raises: KeyError for an
\* event without "time", TypeError when keys that are not all str have to
\* be compared
events_for_day(data, day_number) ==
    LET days == Get(data, "days")
        spec == IF day_number \in DOMAIN days.v THEN days.v[day_number]
                ELSE ListV(<< >>)
        events == IF spec.t = "dict"
                  THEN (IF "events" \in DOMAIN spec.v THEN spec.v["events"].v
                        ELSE << >>)
                  ELSE spec.v
        n == Len(events)
    IN IF \E i \in 1 .. n : "time" \notin DOMAIN events[i]
       THEN [err |-> "KeyError", v |-> << >>]
       ELSE IF n >= 2 /\ \E i \in 1 .. n : events[i]["time"].t # "str"
       THEN [err |-> "TypeError", v |-> << >>]
       ELSE IF n = 1 THEN [err |-> "none", v |-> events]
       ELSE [err |-> "none", v |-> SortByTime(events, << >>)]

(***************************************************************************)
(* qi_bot/scheduler/loop.py: state                                         *)
(***************************************************************************)
VARIABLES
    sent_cache,         \* _sent_cache: the ledger, a set of keys
    current_date_str,   \* _current_date_str: last observed date, NoDate = None
    scheduler_started,  \* _scheduler_started
    schedule_cache,     \* loader._schedule_cache, per plan file
    schedule_mtimes,    \* loader._schedule_mtimes, per plan file
    disk,               \* the schedule files: [doc, mtime] per plan
    pc,                 \* position of the scheduler task
    planPos,            \* index of the plan the tick handles next
    now,                \* the instant the current tick read (datetime.now)
    channels,           \* plans_with_channels: resolved channel ids per plan
    snapshot_channel,   \* channel of the capture report, NoChannel = None
    tickErr,            \* exception caught by the tick loop in this tick
    called,             \* _send_event calls of this tick
    evaluated,          \* events whose due test this tick evaluated
    captureChecked,     \* this tick evaluated the capture trigger
    cleared,            \* the keys the rollover of this tick removed
    log,                \* bag of the outcomes of the sends and captures
                        \* made on the date the clock shows
    epoch,              \* number of restarts of the process so far
    edits,              \* number of edits of schedule files so far
    reconnects,         \* number of ready events delivered to a process
                        \* whose scheduler was started already
    cd,                 \* the cycle clock applied to a date: [d, res, pc]
    capture,            \* the capture job this tick started: [st, ...]
    store_op,           \* the last operation on the schedule store
    rv,                 \* resolve_event applied to an event: [event, ...]
    d1,                 \* the remote store and the capture runs using it
    loop_tasks,         \* scheduler_loop tasks created in this process
    slept,              \* seconds of the asyncio.sleep that ended the last
                        \* tick, 0 while a tick runs or before the first
    lk,                 \* the ledger lock and the tasks that use the ledger
    qy,                 \* a query of the schedule: [doc, now, ...]
    fr,                 \* build_daily_rows applied to fetched rows
    jx                  \* strip_comments_and_trailing_commas applied to a text

vars == << sent_cache, current_date_str, scheduler_started, schedule_cache,
           schedule_mtimes, disk, pc, planPos, now, channels,
           snapshot_channel, tickErr, called, evaluated, captureChecked, capture,
           cleared, log, epoch, edits, reconnects, cd, store_op, rv, d1, loop_tasks,
           slept, lk, qy, fr, jx >>

NoDate == 0
NoChannel == "None"

\* no capture job was started by this tick
NoCapture == [st |-> "none", fail |-> "none", reports |-> << >>, until |-> 0]

\* values of the variables of the other specifications while they are unused
NoLoad == [op |-> "none"]
NoResolve == [pc |-> "off"]
NoD1 == [pc |-> "off"]
NoLedgerRace == [pc |-> "off"]
NoQuery == [pc |-> "off"]
NoRows == [pc |-> "off"]
NoJsonx == [pc |-> "off"]

\* cycle_day_for with a remainder that truncates toward zero
cycle_day_for_truncating(d) ==
    LET delta == d - CYCLE_START_DATE
        r == IF delta >= 0 THEN delta % CYCLE_LENGTH
             ELSE 0 - ((0 - delta) % CYCLE_LENGTH)
    IN r + 1

\* cycle_day_for(d), d an ordinal; Python's % takes the sign of the divisor
cycle_day_for(d) ==
    LET delta == d - CYCLE_START_DATE IN (delta % CYCLE_LENGTH) + 1

\* second of the day of the instants at which the model lets a tick read
\* the clock: 04:00:00, 04:10:00, 09:59:30, 10:00:00, 10:10:00, 10:11:00 on
\* the first
\* date, 04:00:00 and 10:00:00 on the later dates
NowSecs(date) ==
    IF date = FirstDate THEN {14400, 15000, 35970, 36000, 36600, 36660}
    ELSE {14400, 36000}

Instants ==
    { t \in [date : FirstDate .. (FirstDate + NumDays - 1),
             sec : UNION {NowSecs(d) : d \in FirstDate .. (FirstDate + NumDays - 1)}] :
        t.sec \in NowSecs(t.date) }

\* a < b for instants of the same time zone
Before(a, b) == a.date < b.date \/ (a.date = b.date /\ a.sec < b.sec)

\* f"{channel.id}|{when_dt.date()}|{when_dt.strftime('%H:%M')}|{idx}"
MsgKey(ch, date, hh, mm, idx) ==
    [kind |-> "msg", ch |-> ch, date |-> date, hm |-> << hh, mm >>, idx |-> idx]

\* f"d1-snapshot|{scheduled.date()}|04:00"
CaptureKey(date) ==
    [kind |-> "d1", ch |-> "d1-snapshot", date |-> date, hm |-> << 4, 0 >>,
     idx |-> 0]

\* IsDue with a window that is open at its end
IsDue_exclusive(nowSec, sched) ==
    nowSec >= sched /\ (nowSec - sched) < SEND_MISSED_WITHIN_MINUTES * 60

\* now >= scheduled and (now - scheduled) <= timedelta(minutes=...), for a
\* scheduled instant of the date of now at second sched of the day
IsDue(nowSec, sched) ==
    nowSec >= sched /\ (nowSec - sched) <= SEND_MISSED_WITHIN_MINUTES * 60

\* one entry of the log: what happened to key, in which run of the process
\* and at which second of the day
Logged(key, outcome, sec) ==
    SetToBag({[key |-> key, epoch |-> epoch, outcome |-> outcome, at |-> sec]})

\* _send_event without the test "if key in _sent_cache: return"
send_event_no_dedupe(acc, ch, tnow, hh, mm, raw_event, idx, data, sendFails) ==
    LET event == resolve_event(raw_event, data)
        tv == Get(event, "text")
        text == Strip(IF Truthy(tv) THEN tv.v ELSE << >>)
        files == collect_files(Get(event, "image"))
        key == MsgKey(ch, tnow.date, hh, mm, idx)
        acc2 == [acc EXCEPT !.called = @ \cup {key}, !.ledger = @ \cup {key}]
    IN IF text = << >> /\ files = << >>
       THEN [acc2 EXCEPT !.log = @ (+) Logged(key, "empty", tnow.sec)]
       ELSE IF sendFails
       THEN [acc2 EXCEPT !.log = @ (+) Logged(key, "failed", tnow.sec)]
       ELSE [acc2 EXCEPT !.log = @ (+) Logged(key, "sent", tnow.sec)]

\* _send_event that records the key only after a send that did not raise,
\* and lets the exception of channel.send escape
send_event_record_on_success(acc, ch, tnow, hh, mm, raw_event, idx, data, sendFails) ==
    LET event == resolve_event(raw_event, data)
        tv == Get(event, "text")
        text == Strip(IF Truthy(tv) THEN tv.v ELSE << >>)
        files == collect_files(Get(event, "image"))
        key == MsgKey(ch, tnow.date, hh, mm, idx)
        acc1 == [acc EXCEPT !.called = @ \cup {key}]
    IN IF key \in acc.ledger THEN acc1
       ELSE IF text = << >> /\ files = << >>
       THEN [acc1 EXCEPT !.log = @ (+) Logged(key, "empty", tnow.sec)]
       ELSE IF sendFails
       THEN [acc1 EXCEPT !.log = @ (+) Logged(key, "failed", tnow.sec),
                         !.err = "HTTPException"]
       ELSE [acc1 EXCEPT !.log = @ (+) Logged(key, "sent", tnow.sec),
                         !.ledger = @ \cup {key}]

\* _send_event(channel, when_dt, raw_event, idx, schedule_file) on
\* acc = [ledger, log, called, ...]; sendFails tells whether channel.send raises
send_event(acc, ch, tnow, hh, mm, raw_event, idx, data, sendFails) ==
    LET event == resolve_event(raw_event, data)
        tv == Get(event, "text")
        text == Strip(IF Truthy(tv) THEN tv.v ELSE << >>)
        files == collect_files(Get(event, "image"))
        key == MsgKey(ch, tnow.date, hh, mm, idx)
        acc1 == [acc EXCEPT !.called = @ \cup {key}]
    IN IF key \in acc.ledger THEN acc1
       ELSE LET acc2 == [acc1 EXCEPT !.ledger = @ \cup {key}]
            IN IF text = << >> /\ files = << >>
               THEN [acc2 EXCEPT !.log = @ (+) Logged(key, "empty", tnow.sec)]
               ELSE IF sendFails
               THEN [acc2 EXCEPT !.log = @ (+) Logged(key, "failed", tnow.sec)]
               ELSE [acc2 EXCEPT !.log = @ (+) Logged(key, "sent", tnow.sec)]

\* a loop over the channels that a failed send ends
RECURSIVE SendToChannels_until_failure(_, _, _, _, _, _, _, _, _)
SendToChannels_until_failure(acc, chs, tnow, hh, mm, ev, idx, data, failing) ==
    IF chs = << >> \/ acc.err # "none" THEN acc
    ELSE LET acc2 == send_event(acc, Head(chs), tnow, hh, mm, ev, idx, data,
                                Head(chs) \in failing)
         IN IF Head(chs) \in failing /\ acc2.log # acc.log THEN acc2
            ELSE SendToChannels_until_failure(acc2, Tail(chs), tnow, hh, mm,
                                              ev, idx, data, failing)

\* for ch in channels: await _send_event(ch, scheduled, ev, idx, ...)
RECURSIVE SendToChannels(_, _, _, _, _, _, _, _, _)
SendToChannels(acc, chs, tnow, hh, mm, ev, idx, data, failing) ==
    IF chs = << >> \/ acc.err # "none" THEN acc
    ELSE SendToChannels(
            send_event(acc, Head(chs), tnow, hh, mm, ev, idx, data,
                       Head(chs) \in failing),
            Tail(chs), tnow, hh, mm, ev, idx, data, failing)

\* time_str = ev.get("time") up to scheduled = datetime(..., hh, mm, ...):
\* "skip" where the loop continues, "raise" where datetime() raises
\* ValueError outside the try block, "ok" with the hour and minute else
parse_time(ev) ==
    LET time_str == Get(ev, "time")
        parts == Split(time_str.v, ":")
        hh == PyInt(parts[1])
        mm == PyInt(parts[2])
    IN IF ~Truthy(time_str) THEN [status |-> "skip", hh |-> 0, mm |-> 0]
       ELSE IF time_str.t # "str" \/ Len(parts) # 2 \/ ~hh.ok \/ ~mm.ok
       THEN [status |-> "skip", hh |-> 0, mm |-> 0]
       ELSE IF ~(hh.v \in 0 .. 23 /\ mm.v \in 0 .. 59)
       THEN [status |-> "raise", hh |-> hh.v, mm |-> mm.v]
       ELSE [status |-> "ok", hh |-> hh.v, mm |-> mm.v]

\* the body of the loop with a window that reaches over midnight: an event
\* is also due within the minutes after its instant of the date before
event_step_window_over_midnight(acc, p, chs, tnow, ev, idx, data, failing) ==
    LET t == parse_time(ev)
    IN IF t.status = "skip" THEN acc
       ELSE IF t.status = "raise" THEN [acc EXCEPT !.err = "ValueError"]
       ELSE LET sched == t.hh * 3600 + t.mm * 60
                acc1 == [acc EXCEPT !.evaluated = @ \cup
                            {[plan |-> p, idx |-> idx, hm |-> << t.hh, t.mm >>]}]
            IN IF IsDue(tnow.sec, sched)
               THEN SendToChannels(acc1, chs, tnow, t.hh, t.mm, ev, idx,
                                   data, failing)
               ELSE IF IsDue(tnow.sec + 86400, sched)
               THEN SendToChannels(acc1, chs,
                                   [date |-> tnow.date - 1, sec |-> tnow.sec],
                                   t.hh, t.mm, ev, idx, data, failing)
               ELSE acc1

\* the body of "for idx, ev in enumerate(events)" for one event
event_step(acc, p, chs, tnow, ev, idx, data, failing) ==
    LET t == parse_time(ev)
    IN IF t.status = "skip" THEN acc
       ELSE IF t.status = "raise" THEN [acc EXCEPT !.err = "ValueError"]
       ELSE LET sched == t.hh * 3600 + t.mm * 60
                acc1 == [acc EXCEPT !.evaluated = @ \cup
                            {[plan |-> p, idx |-> idx, hm |-> << t.hh, t.mm >>]}]
            IN IF IsDue(tnow.sec, sched)
               THEN SendToChannels(acc1, chs, tnow, t.hh, t.mm, ev, idx,
                                   data, failing)
               ELSE acc1

\* the loop over the events of one plan; an exception ends it
RECURSIVE events_loop(_, _, _, _, _, _, _, _)
events_loop(acc, p, chs, tnow, events, idx, data, failing) ==
    IF events = << >> \/ acc.err # "none" THEN acc
    ELSE events_loop(event_step(acc, p, chs, tnow, Head(events), idx, data, failing),
                     p, chs, tnow, Tail(events), idx + 1, data, failing)

\* the body of "for plan, channels in plans_with_channels" for plan p
plan_step(acc, p, chs, tnow, file, failing) ==
    IF chs = << >> THEN acc
    ELSE LET ld == load_single_schedule([cache |-> acc.cache, mtimes |-> acc.mtimes],
                                        file, p, FALSE)
             gd == get_schedule_data([cache |-> ld.cache, mtimes |-> ld.mtimes],
                                     file, p)
             data == DocOf(gd.cache[p])
             evs == events_for_day(data, cycle_day_for(tnow.date))
             acc1 == [acc EXCEPT !.cache = gd.cache, !.mtimes = gd.mtimes]
         IN IF ld.err # "none" THEN [acc EXCEPT !.err = ld.err]
            ELSE IF gd.err # "none" THEN [acc EXCEPT !.err = gd.err]
            ELSE IF evs.err # "none" THEN [acc1 EXCEPT !.err = evs.err]
            ELSE events_loop(acc1, p, chs, tnow, evs.v, 0, data, failing)

(***************************************************************************)
(* Actions                                                                 *)
(***************************************************************************)
InitDisk == { f \in [PlanIdx -> [doc : UNION {FileContents(p) : p \in PlanIdx},
                                 mtime : {1}]] :
                \A p \in PlanIdx : f[p].doc \in InitContents(p) }

NoCycleCheck == [d |-> << 2025, 10, 16 >>, res |-> 0, pc |-> "off"]

Init ==
    /\ sent_cache = {}
    /\ current_date_str = NoDate
    /\ scheduler_started = FALSE
    /\ loop_tasks = 0
    /\ slept = 0
    /\ lk = NoLedgerRace
    /\ qy = NoQuery
    /\ fr = NoRows
    /\ jx = NoJsonx
    /\ schedule_cache = [p \in PlanIdx |-> NoEntry]
    /\ schedule_mtimes = [p \in PlanIdx |-> NoMtime]
    /\ disk \in InitDisk
    /\ pc = "start"
    /\ planPos = 1
    /\ now = [date |-> FirstDate, sec |-> 0]
    /\ channels = [p \in PlanIdx |-> << >>]
    /\ snapshot_channel = NoChannel
    /\ tickErr = "none"
    /\ called = {}
    /\ evaluated = {}
    /\ captureChecked = FALSE
    /\ cleared = {}
    /\ log = EmptyBag
    /\ epoch = 0
    /\ edits = 0
    /\ reconnects = 0
    /\ cd = NoCycleCheck
    /\ capture = NoCapture
    /\ store_op = NoLoad
    /\ rv = NoResolve
    /\ d1 = NoD1

\* start_scheduler without the test "if not _scheduler_started"
start_scheduler_no_flag_test(started, tasks) ==
    [started |-> TRUE, tasks |-> tasks + 1, created |-> TRUE]

\* start_scheduler(client): created tells whether create_task was called
start_scheduler(started, tasks) ==
    IF ~started THEN [started |-> TRUE, tasks |-> tasks + 1, created |-> TRUE]
    ELSE [started |-> started, tasks |-> tasks, created |-> FALSE]

\* on_ready -> start_scheduler(client); pc follows the first task created.
\* The client delivers a ready event after every (re)connection: the ones
\* that reach a process whose scheduler was started are counted
OnReady ==
    /\ pc # "down"
    /\ scheduler_started => epoch + edits + reconnects < MaxEnvEvents
    /\ reconnects' = IF scheduler_started THEN reconnects + 1 ELSE reconnects
    /\ LET r == start_scheduler(scheduler_started, loop_tasks)
       IN /\ scheduler_started' = r.started
          /\ loop_tasks' = r.tasks
          /\ pc' = IF r.created /\ loop_tasks = 0 THEN "init" ELSE pc
    /\ UNCHANGED << sent_cache, current_date_str, schedule_cache,
                    schedule_mtimes, disk, planPos, now, channels,
                    snapshot_channel, tickErr, called, evaluated,
                    captureChecked, capture, cleared, log, epoch, edits, cd,
                    store_op, rv, d1, slept, lk, qy, fr, jx >>

\* the sets of channel ids for which client.fetch_channel may raise
FetchFailures ==
    { {},
      {SCHEDULE_PLANS[1].channel_ids[1], SCHEDULE_PLANS[1].channel_ids[2],
       D1_STATUS_CHANNEL_ID},
      {SCHEDULE_PLANS[p].channel_ids[i] : p \in PlanIdx, i \in 1 .. 2}
          \cup {D1_STATUS_CHANNEL_ID} }

\* the channels of ids that could be resolved, in order
RECURSIVE Resolved(_, _)
Resolved(ids, unfetchable) ==
    IF ids = << >> THEN << >>
    ELSE (IF Head(ids) \in unfetchable THEN << >> ELSE << Head(ids) >>)
         \o Resolved(Tail(ids), unfetchable)

\* _ensure_channels_per_plan(client)
ensure_channels_per_plan(unfetchable) ==
    [p \in PlanIdx |-> Resolved(SCHEDULE_PLANS[p].channel_ids, unfetchable)]

\* "for plan, channels in plans_with_channels:
\*      load_schedule_if_changed(force=True, ...)" from plan p on
RECURSIVE initial_load(_, _)
initial_load(st, p) ==
    IF p > Len(SCHEDULE_PLANS) \/ st.err # "none" THEN st
    ELSE initial_load(load_single_schedule(st, disk[p], p, TRUE), p + 1)

\* scheduler_loop up to the first tick: resolve the channels, load every
\* plan; an exception here ends the task
LoopInit ==
    /\ pc = "init"
    /\ \E unfetchable \in FetchFailures :
        LET chs == ensure_channels_per_plan(unfetchable)
            all_channels == chs[1] \o chs[2]
        IN /\ channels' = chs
           /\ snapshot_channel' =
                IF D1_STATUS_CHANNEL_ID \notin unfetchable
                THEN D1_STATUS_CHANNEL_ID
                ELSE IF all_channels # << >> THEN all_channels[1] ELSE NoChannel
    /\ LET st == initial_load([cache |-> schedule_cache,
                                mtimes |-> schedule_mtimes, err |-> "none"], 1)
       IN /\ schedule_cache' = st.cache
          /\ schedule_mtimes' = st.mtimes
          /\ pc' = IF st.err = "none" THEN "idle" ELSE "dead"
    /\ UNCHANGED << sent_cache, current_date_str, scheduler_started, disk,
                    planPos, now, tickErr, called, evaluated, captureChecked, capture,
                    cleared, log, epoch, edits, reconnects, cd, store_op, rv, d1,
                    loop_tasks, slept, lk, qy, fr, jx >>

\* a tick whose body is not inside try/except: an exception ends the task
tick_end_uncaught(err) ==
    IF err = "none" THEN [pc |-> "idle", slept |-> 30]
    ELSE [pc |-> "dead", slept |-> 0]

\* the end of a tick: "await asyncio.sleep(30)" after the capture check,
\* "except Exception: log.exception(...); await asyncio.sleep(5)" after an
\* exception; the loop is then at its test "while not client.is_closed()"
tick_end(err) == [pc |-> "idle", slept |-> IF err = "none" THEN 30 ELSE 5]

\* a rollover that records the new date and keeps the ledger
rollover_keeps_ledger(ledger, last_date, today) ==
    [ledger |-> ledger, date |-> today]

\* a rollover that clears the ledger in every tick
rollover_every_tick(ledger, last_date, today) ==
    [ledger |-> {}, date |-> today]

\* "if _current_date_str != today.isoformat():" with its body
rollover(ledger, last_date, today) ==
    IF last_date # today THEN [ledger |-> {}, date |-> today]
    ELSE [ledger |-> ledger, date |-> last_date]

\* top of the while loop: read the clock, which shows an instant of the
\* set instants, and roll the day over
BeginTickAt(instants) ==
    /\ pc = "idle"
    /\ \E t \in instants :
        /\ Before(now, t)
        /\ capture.st = "done" => (t.date > now.date \/ t.sec > capture.until)
        /\ now' = t
        /\ log' = IF t.date # now.date THEN EmptyBag ELSE log
        /\ LET r == rollover(sent_cache, current_date_str, t.date)
           IN /\ sent_cache' = r.ledger
              /\ current_date_str' = r.date
              /\ cleared' = sent_cache \ r.ledger
    /\ pc' = "plan"
    /\ planPos' = 1
    /\ tickErr' = "none"
    /\ called' = {}
    /\ evaluated' = {}
    /\ captureChecked' = FALSE
    /\ capture' = NoCapture
    /\ slept' = 0
    /\ UNCHANGED << scheduler_started, schedule_cache, schedule_mtimes, disk,
                    channels, snapshot_channel, epoch, edits, reconnects, cd, store_op, rv,
                    d1, loop_tasks, lk, qy, fr, jx >>

BeginTick == BeginTickAt(Instants)

\* the sets of channels whose channel.send may raise during one plan
SendFailures(chs) == IF chs = << >> THEN {{}} ELSE {{}, {Head(chs)}}

\* one iteration of the loop over the plans; an exception leaves the tick
\* (except Exception: log, sleep 5)
PlanStep ==
    /\ pc = "plan"
    /\ \E failing \in SendFailures(channels[planPos]) :
        \E acc \in {plan_step([ledger |-> sent_cache, log |-> log,
                               called |-> called, evaluated |-> evaluated,
                               cache |-> schedule_cache,
                               mtimes |-> schedule_mtimes, err |-> "none"],
                              planPos, channels[planPos], now, disk[planPos],
                              failing)} :
           /\ sent_cache' = acc.ledger
           /\ log' = acc.log
           /\ called' = acc.called
           /\ evaluated' = acc.evaluated
           /\ schedule_cache' = acc.cache
           /\ schedule_mtimes' = acc.mtimes
           /\ tickErr' = acc.err
           /\ pc' = IF acc.err # "none" THEN tick_end(acc.err).pc
                    ELSE IF planPos = Len(SCHEDULE_PLANS) THEN "capture"
                    ELSE "plan"
           /\ slept' = IF acc.err # "none" THEN tick_end(acc.err).slept
                       ELSE slept
           /\ planPos' = IF acc.err = "none" /\ planPos < Len(SCHEDULE_PLANS)
                         THEN planPos + 1 ELSE planPos
    /\ UNCHANGED << current_date_str, scheduler_started, disk, now, channels,
                    snapshot_channel, captureChecked, capture, cleared, epoch, edits, reconnects,
                    cd, store_op, rv, d1, loop_tasks, lk, qy, fr, jx >>

\* _run_daily_snapshot_if_due without "if key in _sent_cache: return"
run_daily_snapshot_if_due_no_ledger_test(ledger, tnow) ==
    LET key == CaptureKey(tnow.date)
    IN IF ~IsDue(tnow.sec, 4 * 3600) THEN [ledger |-> ledger, start |-> FALSE]
       ELSE [ledger |-> ledger \cup {key}, start |-> TRUE]

\* _run_daily_snapshot_if_due that tests the key and leaves its insertion
\* to the end of a run
run_daily_snapshot_if_due_key_after_run(ledger, tnow) ==
    LET key == CaptureKey(tnow.date)
    IN IF ~IsDue(tnow.sec, 4 * 3600) THEN [ledger |-> ledger, start |-> FALSE]
       ELSE IF key \in ledger THEN [ledger |-> ledger, start |-> FALSE]
       ELSE [ledger |-> ledger, start |-> TRUE]

\* _run_daily_snapshot_if_due(now, target_channel) up to the call of
\* _run_snapshot_impl: start tells whether the capture job is run
run_daily_snapshot_if_due(ledger, tnow) ==
    LET key == CaptureKey(tnow.date)
    IN IF ~IsDue(tnow.sec, 4 * 3600) THEN [ledger |-> ledger, start |-> FALSE]
       ELSE IF key \in ledger THEN [ledger |-> ledger, start |-> FALSE]
       ELSE [ledger |-> ledger \cup {key}, start |-> TRUE]

\* the steps of the capture job that may raise: fetch_players,
\* build_daily_rows, insert_daily_snapshot, the send of the success report
CaptureFailures == {"none", "fetch", "filter", "insert", "report"}

\* one report handed to target_channel.send; ok is FALSE when send raised
Report(kind, ok) == [kind |-> kind, ok |-> ok]

\* _run_snapshot_impl whose failure report is sent outside a try block
run_snapshot_impl_report_unguarded(target_channel, fail, reportFails) ==
    IF target_channel = NoChannel
    THEN [reports |-> << >>, err |-> "none"]
    ELSE IF fail = "none"
    THEN [reports |-> << Report("success", TRUE) >>, err |-> "none"]
    ELSE [reports |-> (IF fail = "report" THEN << Report("success", FALSE) >>
                       ELSE << >>) \o << Report("failure", ~reportFails) >>,
          err |-> IF reportFails THEN "HTTPException" ELSE "none"]

\* _run_snapshot_impl(target_channel, source): fail names the step that
\* raises, reportFails tells whether the send of the failure report raises;
\* reports are the calls of target_channel.send, err is the exception that
\* leaves the function
run_snapshot_impl(target_channel, fail, reportFails) ==
    IF target_channel = NoChannel
    THEN [reports |-> << >>, err |-> "none"]
    ELSE IF fail = "none"
    THEN [reports |-> << Report("success", TRUE) >>, err |-> "none"]
    ELSE [reports |-> (IF fail = "report" THEN << Report("success", FALSE) >>
                       ELSE << >>) \o << Report("failure", ~reportFails) >>,
          err |-> "none"]

\* await _run_daily_snapshot_if_due(now, snapshot_channel) up to the await
\* of _run_snapshot_impl; a trigger that is not due ends the tick (sleep 30)
CaptureStep ==
    /\ pc = "capture"
    /\ LET r == run_daily_snapshot_if_due(sent_cache, now)
       IN /\ sent_cache' = r.ledger
          /\ log' = IF r.start
                    THEN log (+) Logged(CaptureKey(now.date), "capture_started",
                                        now.sec)
                    ELSE log
          /\ pc' = IF r.start THEN "capture_run" ELSE tick_end("none").pc
          /\ slept' = IF r.start THEN slept ELSE tick_end("none").slept
          /\ capture' = IF r.start THEN [NoCapture EXCEPT !.st = "running"]
                        ELSE NoCapture
    /\ captureChecked' = TRUE
    /\ UNCHANGED << current_date_str, scheduler_started, schedule_cache,
                    schedule_mtimes, disk, planPos, now, channels,
                    snapshot_channel, tickErr, called, evaluated, cleared,
                    epoch, edits, reconnects, cd, store_op, rv, d1, loop_tasks, lk, qy, fr, jx >>

\* the seconds of the day at which a capture job started at tnow may
\* return: at once, or not before the last instant of that date
CaptureEnds(tnow) ==
    {tnow.sec} \cup {s \in NowSecs(tnow.date) : \A u \in NowSecs(tnow.date) : u <= s}

\* the ways the capture job may go: a step that raises, whether the send
\* of the failure report raises too, and when the job returns
CaptureRuns(tnow, target_channel) ==
    { r \in [fail : CaptureFailures, reportFails : BOOLEAN,
             until : CaptureEnds(tnow)] :
        /\ (r.fail = "none" => ~r.reportFails)
        /\ (r.fail = "report" => target_channel # NoChannel)
        /\ (r.reportFails => target_channel # NoChannel)
        /\ (r.until # tnow.sec => r.fail \in {"none", "fetch"}) }

\* the tick waits for _run_snapshot_impl(target_channel, source="daily") to
\* return; then sleep 30, or the handler of the tick when it raised
CaptureRun ==
    /\ pc = "capture_run"
    /\ \E r \in CaptureRuns(now, snapshot_channel) :
        LET res == run_snapshot_impl(snapshot_channel, r.fail, r.reportFails)
        IN /\ capture' = [st |-> "done", fail |-> r.fail,
                          reports |-> res.reports, until |-> r.until]
           /\ tickErr' = res.err
           /\ pc' = tick_end(res.err).pc
           /\ slept' = tick_end(res.err).slept
    /\ UNCHANGED << sent_cache, current_date_str, scheduler_started,
                    schedule_cache, schedule_mtimes, disk, planPos, now,
                    channels, snapshot_channel, called, evaluated,
                    captureChecked, cleared, log, epoch, edits, reconnects, cd, store_op,
                    rv, d1, loop_tasks, lk, qy, fr, jx >>

\* on_message for a command sent in a channel of plan p:
\* load_schedule_if_changed(schedule_file=...); an exception ends the handler
OnMessage(p) ==
    /\ pc # "down"
    /\ LET st == load_single_schedule([cache |-> schedule_cache,
                                       mtimes |-> schedule_mtimes],
                                      disk[p], p, FALSE)
       IN /\ schedule_cache' = st.cache
          /\ schedule_mtimes' = st.mtimes
    /\ UNCHANGED << sent_cache, current_date_str, scheduler_started, disk,
                    pc, planPos, now, channels, snapshot_channel, tickErr,
                    called, evaluated, captureChecked, capture, cleared, log,
                    epoch, edits, reconnects, cd, store_op, rv, d1, loop_tasks, slept, lk,
                    qy, fr, jx >>

\* the contents an edit may leave in a schedule file
EditContents == {"good", "earlier", "malformed"}

\* the environment rewrites, creates or deletes the schedule file of plan p
EditFile(p) ==
    /\ epoch + edits + reconnects < MaxEnvEvents
    /\ \E c \in EditContents \ {disk[p].doc} :
        disk' = [disk EXCEPT ![p] = [doc |-> c, mtime |-> disk[p].mtime + 1]]
    /\ edits' = edits + 1
    /\ UNCHANGED << sent_cache, current_date_str, scheduler_started,
                    schedule_cache, schedule_mtimes, pc, planPos, now,
                    channels, snapshot_channel, tickErr, called, evaluated,
                    captureChecked, capture, cleared, log, epoch, reconnects,
                    cd, store_op, rv, d1, loop_tasks, slept, lk, qy, fr, jx >>

\* a restart after which the ledger and the last observed date are still there
RestartKeepsLedger ==
    /\ epoch + edits + reconnects < MaxEnvEvents
    /\ epoch' = epoch + 1
    /\ scheduler_started' = FALSE
    /\ loop_tasks' = 0
    /\ slept' = 0
    /\ schedule_cache' = [p \in PlanIdx |-> NoEntry]
    /\ schedule_mtimes' = [p \in PlanIdx |-> NoMtime]
    /\ pc' = "start"
    /\ planPos' = 1
    /\ channels' = [p \in PlanIdx |-> << >>]
    /\ snapshot_channel' = NoChannel
    /\ tickErr' = "none"
    /\ called' = {}
    /\ evaluated' = {}
    /\ captureChecked' = FALSE
    /\ capture' = NoCapture
    /\ cleared' = {}
    /\ UNCHANGED << sent_cache, current_date_str, disk, now, log, edits, reconnects, cd, store_op, rv, d1, lk, qy, fr, jx >>

\* the process is stopped and started again: the module globals are new
Restart ==
    /\ epoch + edits + reconnects < MaxEnvEvents
    /\ epoch' = epoch + 1
    /\ sent_cache' = {}
    /\ current_date_str' = NoDate
    /\ scheduler_started' = FALSE
    /\ loop_tasks' = 0
    /\ slept' = 0
    /\ schedule_cache' = [p \in PlanIdx |-> NoEntry]
    /\ schedule_mtimes' = [p \in PlanIdx |-> NoMtime]
    /\ pc' = "start"
    /\ planPos' = 1
    /\ channels' = [p \in PlanIdx |-> << >>]
    /\ snapshot_channel' = NoChannel
    /\ tickErr' = "none"
    /\ called' = {}
    /\ evaluated' = {}
    /\ captureChecked' = FALSE
    /\ capture' = NoCapture
    /\ cleared' = {}
    /\ UNCHANGED << disk, now, log, edits, reconnects, cd, store_op, rv, d1, lk, qy, fr, jx >>

\* the client is closed while the loop sleeps: the test "while not
\* client.is_closed()" ends the loop, and no event reaches the handlers
ClientClose ==
    /\ pc = "idle"
    /\ pc' = "down"
    /\ UNCHANGED << sent_cache, current_date_str, scheduler_started,
                    schedule_cache, schedule_mtimes, disk, planPos, now,
                    channels, snapshot_channel, tickErr, called, evaluated,
                    captureChecked, capture, cleared, log, epoch, edits, reconnects, cd,
                    store_op, rv, d1, loop_tasks, slept, lk, qy, fr, jx >>

Next ==
    \/ OnReady
    \/ LoopInit
    \/ BeginTick
    \/ PlanStep
    \/ CaptureStep
    \/ CaptureRun
    \/ ClientClose
    \/ \E p \in PlanIdx : OnMessage(p)
    \/ \E p \in PlanIdx : EditFile(p)
    \/ Restart

Spec == Init /\ [][Next]_vars

(***************************************************************************)
(* The cycle clock on its own: a date is drawn, cycle_day_for is applied   *)
(* to it and to the date one cycle later.                                  *)
(***************************************************************************)
\* the dates the cycle clock is applied to: September to December 2025
CycleDates ==
    { ymd \in {2025} \X (9 .. 12) \X (1 .. 31) : ymd[3] <= DaysInMonth(ymd[1], ymd[2]) }

InitCycle ==
    /\ sent_cache = {}
    /\ current_date_str = NoDate
    /\ scheduler_started = FALSE
    /\ loop_tasks = 0
    /\ slept = 0
    /\ lk = NoLedgerRace
    /\ qy = NoQuery
    /\ fr = NoRows
    /\ jx = NoJsonx
    /\ schedule_cache = [p \in PlanIdx |-> NoEntry]
    /\ schedule_mtimes = [p \in PlanIdx |-> NoMtime]
    /\ disk = [p \in PlanIdx |-> [doc |-> "missing", mtime |-> 1]]
    /\ pc = "start"
    /\ planPos = 1
    /\ now = [date |-> FirstDate, sec |-> 0]
    /\ channels = [p \in PlanIdx |-> << >>]
    /\ snapshot_channel = NoChannel
    /\ tickErr = "none"
    /\ called = {}
    /\ evaluated = {}
    /\ captureChecked = FALSE
    /\ cleared = {}
    /\ log = EmptyBag
    /\ epoch = 0
    /\ edits = 0
    /\ reconnects = 0
    /\ \E ymd \in CycleDates : cd = [d |-> ymd, res |-> 0, pc |-> "ready"]
    /\ capture = NoCapture
    /\ store_op = NoLoad
    /\ rv = NoResolve
    /\ d1 = NoD1

SchedulerVars ==
    << sent_cache, current_date_str, scheduler_started, schedule_cache,
       schedule_mtimes, disk, pc, planPos, now, channels, snapshot_channel,
       tickErr, called, evaluated, captureChecked, capture, cleared, log, epoch,
       edits, reconnects, loop_tasks, slept >>

\* daynum = cycle_day_for(d)
CycleApply ==
    /\ cd.pc = "ready"
    /\ cd' = [cd EXCEPT !.res = cycle_day_for(ToOrdinal(cd.d[1], cd.d[2], cd.d[3])),
                        !.pc = "done"]
    /\ UNCHANGED SchedulerVars
    /\ UNCHANGED << store_op, rv, d1, lk, qy, fr, jx >>

\* daynum = cycle_day_for(d + timedelta(days=CYCLE_LENGTH))
CycleApplyNextPeriod ==
    /\ cd.pc = "done"
    /\ cd' = [cd EXCEPT
                !.res = cycle_day_for(ToOrdinal(cd.d[1], cd.d[2], cd.d[3]) + CYCLE_LENGTH),
                !.pc = "next"]
    /\ UNCHANGED SchedulerVars
    /\ UNCHANGED << store_op, rv, d1, lk, qy, fr, jx >>

NextCycle == CycleApply \/ CycleApplyNextPeriod

SpecCycle == InitCycle /\ [][NextCycle]_vars

(***************************************************************************)
(* The event resolver on its own: resolve_event applied to an event and a  *)
(* document drawn from the sets below.                                     *)
(***************************************************************************)
HelloName == << "H", "e", "l", "l", "o", " ", "{", "n", "a", "m", "e", "}" >>
HelloMissing == << "H", "e", "l", "l", "o", " ", "{", "m", "i", "s", "s", "i", "n", "g", "}" >>
NameAndMissing == << "{", "n", "a", "m", "e", "}", " ", "{", "m", "i", "s", "s", "i", "n", "g", "}" >>
HelloOpen == << "H", "e", "l", "l", "o", " ", "{", "n", "a", "m", "e" >>
HelloQi == << "H", "e", "l", "l", "o", " ", "Q", "i" >>
NameKey == << "n", "a", "m", "e" >>

\* a field an event or a template does not have
Absent == [t |-> "absent", v |-> << >>]

\* the dict of the fields that are not Absent
MkDict(fields) ==
    [k \in {x \in DOMAIN fields : fields[x] # Absent} |-> fields[k]]

VarsQi == DictV([k \in {NameKey} |-> Str(<< "Q", "i" >>)])

\* the raw events resolve_event is applied to
ResolveUses == {Absent, Str(TemplateT), Str(<< "U" >>)}
ResolveTexts ==
    {Absent, Str(<< "B" >>), Str(HelloName), Str(HelloMissing),
     Str(NameAndMissing), Str(HelloOpen)}
ResolveImages == {Absent, NoneV, Str(<< "y", ".", "p", "n", "g" >>)}
ResolveVars == {Absent, DictV(EmptyDict), VarsQi, Str(<< "v" >>)}

RawEvents ==
    { MkDict([time |-> Str(T1000), use |-> u, text |-> t, image |-> i,
              vars |-> v]) :
        u \in ResolveUses, t \in ResolveTexts, i \in ResolveImages,
        v \in ResolveVars }

\* the templates the document may hold under the name T
ResolveTemplates ==
    { MkDict([text |-> Str(<< "A" >>),
              image |-> Str(<< "x", ".", "p", "n", "g" >>),
              use |-> Absent, vars |-> Absent]),
      MkDict([text |-> Str(<< "A" >>), image |-> Absent,
              use |-> Str(<< "U" >>), vars |-> Absent]),
      MkDict([text |-> Str(HelloName), image |-> NoneV,
              use |-> Absent, vars |-> VarsQi]),
      EmptyDict }

\* the documents: no template, or one template named T
ResolveDocs ==
    {EmptyDoc} \cup
    { [days |-> DictV(EmptyDict),
       templates |-> DictV([k \in {TemplateT} |-> DictV(t)])] :
        t \in ResolveTemplates }

InitResolve ==
    /\ sent_cache = {}
    /\ current_date_str = NoDate
    /\ scheduler_started = FALSE
    /\ loop_tasks = 0
    /\ slept = 0
    /\ lk = NoLedgerRace
    /\ qy = NoQuery
    /\ fr = NoRows
    /\ jx = NoJsonx
    /\ schedule_cache = [p \in PlanIdx |-> NoEntry]
    /\ schedule_mtimes = [p \in PlanIdx |-> NoMtime]
    /\ disk = [p \in PlanIdx |-> [doc |-> "missing", mtime |-> 1]]
    /\ pc = "start"
    /\ planPos = 1
    /\ now = [date |-> FirstDate, sec |-> 0]
    /\ channels = [p \in PlanIdx |-> << >>]
    /\ snapshot_channel = NoChannel
    /\ tickErr = "none"
    /\ called = {}
    /\ evaluated = {}
    /\ captureChecked = FALSE
    /\ cleared = {}
    /\ log = EmptyBag
    /\ epoch = 0
    /\ edits = 0
    /\ reconnects = 0
    /\ cd = NoCycleCheck
    /\ capture = NoCapture
    /\ store_op = NoLoad
    /\ d1 = NoD1
    /\ \E e \in RawEvents, doc \in ResolveDocs :
        rv = [pc |-> "ready", event |-> e, doc |-> doc, out |-> EmptyDict]

\* ev = resolve_event(raw_event, get_schedule_data(schedule_file))
ResolveApply ==
    /\ rv.pc = "ready"
    /\ rv' = [rv EXCEPT !.out = resolve_event(rv.event, rv.doc), !.pc = "done"]
    /\ UNCHANGED SchedulerVars
    /\ UNCHANGED << cd, store_op, d1, lk, qy, fr, jx >>

NextResolve == ResolveApply

SpecResolve == InitResolve /\ [][NextResolve]_vars

(***************************************************************************)
(* The schedule store on its own: refreshes and queries of the two plan    *)
(* files while the files are rewritten, touched and deleted.               *)
(***************************************************************************)
\* the contents a schedule file may get in this specification
StoreContents == {"good", "pair", "malformed"}

InitStore ==
    /\ sent_cache = {}
    /\ current_date_str = NoDate
    /\ scheduler_started = FALSE
    /\ loop_tasks = 0
    /\ slept = 0
    /\ lk = NoLedgerRace
    /\ qy = NoQuery
    /\ fr = NoRows
    /\ jx = NoJsonx
    /\ schedule_cache = [p \in PlanIdx |-> NoEntry]
    /\ schedule_mtimes = [p \in PlanIdx |-> NoMtime]
    /\ disk \in [PlanIdx -> [doc : StoreContents \cup {"missing"}, mtime : {1}]]
    /\ pc = "start"
    /\ planPos = 1
    /\ now = [date |-> FirstDate, sec |-> 0]
    /\ channels = [p \in PlanIdx |-> << >>]
    /\ snapshot_channel = NoChannel
    /\ tickErr = "none"
    /\ called = {}
    /\ evaluated = {}
    /\ captureChecked = FALSE
    /\ cleared = {}
    /\ log = EmptyBag
    /\ epoch = 0
    /\ edits = 0
    /\ reconnects = 0
    /\ cd = NoCycleCheck
    /\ capture = NoCapture
    /\ store_op = [op |-> "start"]
    /\ rv = NoResolve
    /\ d1 = NoD1

\* the variables the schedule store specification leaves alone
NonStoreVars ==
    << sent_cache, current_date_str, scheduler_started, pc, planPos, now,
       channels, snapshot_channel, tickErr, called, evaluated, captureChecked,
       capture, cleared, log, epoch, edits, reconnects, cd, rv, d1, loop_tasks, slept,
       lk, qy, fr, jx >>

\* what store_op records of an operation on the file of plan p: the file
\* and the store as the operation found them, and its outcome
StoreOp(op, p, force, res) ==
    [op |-> op, p |-> p, force |-> force, read |-> res.read, err |-> res.err,
     file |-> disk[p], cache |-> schedule_cache, mtimes |-> schedule_mtimes]

\* load_schedule_if_changed(force, schedule_file) for the file of plan p
StoreLoad(p, force) ==
    /\ LET res == load_single_schedule([cache |-> schedule_cache,
                                        mtimes |-> schedule_mtimes],
                                       disk[p], p, force)
       IN /\ schedule_cache' = res.cache
          /\ schedule_mtimes' = res.mtimes
          /\ store_op' = StoreOp("load", p, force, res)
    /\ UNCHANGED disk
    /\ UNCHANGED NonStoreVars

\* get_schedule_data(schedule_file) for the file of plan p
StoreGet(p) ==
    /\ LET res == get_schedule_data([cache |-> schedule_cache,
                                     mtimes |-> schedule_mtimes], disk[p], p)
       IN /\ schedule_cache' = res.cache
          /\ schedule_mtimes' = res.mtimes
          /\ store_op' = StoreOp("get", p, FALSE, res)
    /\ UNCHANGED disk
    /\ UNCHANGED NonStoreVars

\* the file of plan p is written: new contents with a new modification
\* time, the same contents with a new modification time (touch), or new
\* contents under the old modification time
StoreWrite(p) ==
    /\ \E c \in StoreContents, m \in {disk[p].mtime, disk[p].mtime + 1} :
        /\ m <= MaxMtime
        /\ disk[p].doc = "missing" => m = disk[p].mtime + 1
        /\ << c, m >> # << disk[p].doc, disk[p].mtime >>
        /\ disk' = [disk EXCEPT ![p] = [doc |-> c, mtime |-> m]]
    /\ store_op' = [op |-> "write"]
    /\ UNCHANGED << schedule_cache, schedule_mtimes >>
    /\ UNCHANGED NonStoreVars

\* the file of plan p is deleted
StoreDelete(p) ==
    /\ disk[p].doc # "missing"
    /\ disk' = [disk EXCEPT ![p].doc = "missing"]
    /\ store_op' = [op |-> "delete"]
    /\ UNCHANGED << schedule_cache, schedule_mtimes >>
    /\ UNCHANGED NonStoreVars

NextStore ==
    \/ \E p \in PlanIdx, force \in BOOLEAN : StoreLoad(p, force)
    \/ \E p \in PlanIdx : StoreGet(p)
    \/ \E p \in PlanIdx : StoreWrite(p)
    \/ \E p \in PlanIdx : StoreDelete(p)

SpecStore == InitStore /\ [][NextStore]_vars

(***************************************************************************)
(* qi_bot/utils/cloudfare_d1.py: insert_daily_snapshot against the remote  *)
(* store.  The table snapshots is the sequence d1.snapshots, the id of a   *)
(* record is its index and rows counts its player_stats rows.  Every       *)
(* d1_query is one step; the calls of the capture runs (worker threads of  *)
(* asyncio.to_thread) interleave between queries.  A label is the date     *)
(* and the number of the call that read the clock: no two calls read the   *)
(* clock in the same second.                                               *)
(***************************************************************************)
BATCH_SIZE == 1000

RunIds == 1 .. NumRuns

\* numbers of rows handed to insert_daily_snapshot
RowCounts == {0, 1, BATCH_SIZE + 1}

IdleRun ==
    [pc |-> "idle", n |-> 0, date |-> NoDate, at |-> 0,
     had |-> FALSE, created |-> FALSE, inserted |-> 0, batches |-> << >>,
     sid |-> 0, after |-> {},
     result |-> [status |-> "none"]]

\* the ids of the records of date, as the existence check orders them
\* (ORDER BY captured_at ASC)
SnapshotsOf(snapshots, date) ==
    { i \in 1 .. Len(snapshots) : snapshots[i].date = date }

Earliest(snapshots, ids) ==
    CHOOSE i \in ids : \A j \in ids : snapshots[i].at <= snapshots[j].at

\* what insert_daily_snapshot returns
Returned(label, snapshot_id, rows_inserted, skipped) ==
    [status |-> "returned", label |-> label, snapshot_id |-> snapshot_id,
     rows_inserted |-> rows_inserted, skipped |-> skipped]

Raised == [status |-> "raised"]

NoLabel == [date |-> NoDate, at |-> 0]

InitD1 ==
    /\ sent_cache = {}
    /\ current_date_str = NoDate
    /\ scheduler_started = FALSE
    /\ loop_tasks = 0
    /\ slept = 0
    /\ lk = NoLedgerRace
    /\ qy = NoQuery
    /\ fr = NoRows
    /\ jx = NoJsonx
    /\ schedule_cache = [p \in PlanIdx |-> NoEntry]
    /\ schedule_mtimes = [p \in PlanIdx |-> NoMtime]
    /\ disk = [p \in PlanIdx |-> [doc |-> "missing", mtime |-> 1]]
    /\ pc = "start"
    /\ planPos = 1
    /\ now = [date |-> FirstDate, sec |-> 0]
    /\ channels = [p \in PlanIdx |-> << >>]
    /\ snapshot_channel = NoChannel
    /\ tickErr = "none"
    /\ called = {}
    /\ evaluated = {}
    /\ captureChecked = FALSE
    /\ cleared = {}
    /\ log = EmptyBag
    /\ epoch = 0
    /\ edits = 0
    /\ reconnects = 0
    /\ cd = NoCycleCheck
    /\ capture = NoCapture
    /\ store_op = NoLoad
    /\ rv = NoResolve
    /\ d1 = [pc |-> "on", today |-> FirstDate, calls |-> 0, fails |-> 0,
             ledger |-> {}, snapshots |-> << >>,
             runs |-> [r \in RunIds |-> IdleRun]]

D1Frozen == << cd, capture, store_op, rv, lk, qy, fr, jx >>

\* a d1_query may raise while the budget of failures lasts
QueryOutcomes == IF d1.fails < MaxQueryFailures THEN {TRUE, FALSE} ELSE {TRUE}

\* d1 after one query of run r that left the run as run2 and the table as
\* snapshots2
AfterQuery(r, ok, run2, snapshots2) ==
    [d1 EXCEPT !.runs[r] = run2, !.snapshots = snapshots2,
               !.fails = IF ok THEN @ ELSE @ + 1]

\* the calls of date that have ended with an exception after they had
\* created their record (kept with a call that begins, to tell which
\* failures it comes after)
FailedCalls(st, date) ==
    { st.runs[x].at : x \in { y \in RunIds :
        /\ st.runs[y].pc = "done" /\ st.runs[y].date = date
        /\ st.runs[y].created /\ st.runs[y].result = Raised } }

\* insert_daily_snapshot(rows) up to its first query: the test "if not
\* rows", now = datetime.now(TZ), the collection of the names.  The rows
\* are those of build_daily_rows, which carry no name: the two dicts of
\* names stay empty and step 1 sends no query.
insert_daily_snapshot_begin(st, r, n) ==
    IF n = 0
    THEN [st EXCEPT !.runs[r] =
            [IdleRun EXCEPT !.pc = "done",
                            !.result = Returned(NoLabel, 0, 0, "absent")],
          !.calls = @ + 1]
    ELSE [st EXCEPT !.runs[r] =
            [IdleRun EXCEPT !.pc = "check",
                            !.n = n, !.date = st.today,
                            !.at = st.calls + 1,
                            !.had = SnapshotsOf(st.snapshots, st.today) # {},
                            !.after = FailedCalls(st, st.today)],
          !.calls = @ + 1]

\* %sql: _handle_sql -> run_manual_snapshot -> _run_snapshot_impl reaches
\* insert_daily_snapshot(filtered_rows)
D1Manual(r) ==
    /\ d1.pc = "on" /\ d1.calls < MaxCalls
    /\ d1.runs[r].pc \in {"idle", "done"}
    /\ \E n \in RowCounts :
        d1' = insert_daily_snapshot_begin(d1, r, n)
    /\ UNCHANGED SchedulerVars
    /\ UNCHANGED D1Frozen

\* the tick of 04:00: _run_daily_snapshot_if_due -> _run_snapshot_impl
\* reaches insert_daily_snapshot(filtered_rows)
D1Daily(r) ==
    /\ d1.pc = "on" /\ d1.calls < MaxCalls
    /\ d1.runs[r].pc \in {"idle", "done"}
    /\ LET due == run_daily_snapshot_if_due(d1.ledger,
                                            [date |-> d1.today, sec |-> 14400])
       IN /\ due.start
          /\ \E n \in RowCounts :
                d1' = [insert_daily_snapshot_begin(d1, r, n)
                          EXCEPT !.ledger = due.ledger]
    /\ UNCHANGED SchedulerVars
    /\ UNCHANGED D1Frozen

\* step 2 of insert_daily_snapshot: the SELECT of today's earliest record
\* inside try/except, and the return when a record was found
existence_check(run, snapshots, ok) ==
    LET ids == SnapshotsOf(snapshots, run.date)
    IN IF ~ok \/ ids = {} THEN [run EXCEPT !.pc = "insert"]
       ELSE LET i == Earliest(snapshots, ids)
            IN [run EXCEPT !.pc = "done",
                           !.result = Returned([date |-> snapshots[i].date,
                                                at |-> snapshots[i].at],
                                               i, 0, "true")]

D1Check(r) ==
    /\ d1.pc = "on" /\ d1.runs[r].pc = "check"
    /\ \E ok \in QueryOutcomes :
        d1' = AfterQuery(r, ok, existence_check(d1.runs[r], d1.snapshots, ok),
                        d1.snapshots)
    /\ UNCHANGED SchedulerVars
    /\ UNCHANGED D1Frozen

\* step 3: INSERT INTO snapshots (label, captured_at)
D1Insert(r) ==
    /\ d1.pc = "on" /\ d1.runs[r].pc = "insert"
    /\ \E ok \in QueryOutcomes :
        d1' = AfterQuery(r, ok,
                IF ok THEN [d1.runs[r] EXCEPT !.pc = "fetchid", !.created = TRUE]
                ELSE [d1.runs[r] EXCEPT !.pc = "done", !.result = Raised],
                IF ok THEN Append(d1.snapshots,
                                  [date |-> d1.runs[r].date,
                                   at |-> d1.runs[r].at, rows |-> 0])
                ELSE d1.snapshots)
    /\ UNCHANGED SchedulerVars
    /\ UNCHANGED D1Frozen

\* step 4: SELECT id FROM snapshots WHERE label = ?
D1FetchId(r) ==
    /\ d1.pc = "on" /\ d1.runs[r].pc = "fetchid"
    /\ \E ok \in QueryOutcomes :
        LET run == d1.runs[r]
            ids == { i \in 1 .. Len(d1.snapshots) :
                        /\ d1.snapshots[i].date = run.date
                        /\ d1.snapshots[i].at = run.at }
        IN d1' = AfterQuery(r, ok,
                    IF ok /\ ids # {}
                    THEN [run EXCEPT !.pc = "rows",
                                     !.sid = CHOOSE i \in ids : \A j \in ids : i <= j]
                    ELSE [run EXCEPT !.pc = "done", !.result = Raised],
                    d1.snapshots)
    /\ UNCHANGED SchedulerVars
    /\ UNCHANGED D1Frozen

\* a statement that carries all the rows that are left
chunk_len_unbatched(n, start) == n - start

\* len(rows[start : start + BATCH_SIZE]) for a list of n rows
chunk_len(n, start) ==
    IF n - start < BATCH_SIZE THEN n - start ELSE BATCH_SIZE

\* step 5: one INSERT INTO player_stats of the next chunk of the rows,
\* tagged with snapshot_id, and the return after the last one
D1Rows(r) ==
    /\ d1.pc = "on" /\ d1.runs[r].pc = "rows"
    /\ \E ok \in QueryOutcomes :
        LET run == d1.runs[r]
            chunk == chunk_len(run.n, run.inserted)
            total == run.inserted + chunk
        IN d1' = AfterQuery(r, ok,
                    IF ~ok THEN [run EXCEPT !.pc = "done", !.result = Raised]
                    ELSE IF total < run.n
                    THEN [run EXCEPT !.inserted = total,
                                     !.batches = Append(@, chunk)]
                    ELSE [run EXCEPT !.inserted = total,
                                     !.batches = Append(@, chunk), !.pc = "done",
                                     !.result = Returned([date |-> run.date,
                                                          at |-> run.at],
                                                         run.sid, total, "absent")],
                    IF ok THEN [d1.snapshots EXCEPT ![run.sid].rows = @ + chunk]
                    ELSE d1.snapshots)
    /\ UNCHANGED SchedulerVars
    /\ UNCHANGED D1Frozen

\* midnight passes
D1NextDay ==
    /\ d1.pc = "on" /\ d1.today < FirstDate + NumDays - 1
    /\ d1' = [d1 EXCEPT !.today = @ + 1]
    /\ UNCHANGED SchedulerVars
    /\ UNCHANGED D1Frozen

NextD1 ==
    \/ \E r \in RunIds : D1Manual(r)
    \/ \E r \in RunIds : D1Daily(r)
    \/ \E r \in RunIds : D1Check(r)
    \/ \E r \in RunIds : D1Insert(r)
    \/ \E r \in RunIds : D1FetchId(r)
    \/ \E r \in RunIds : D1Rows(r)
    \/ D1NextDay

SpecD1 == InitD1 /\ [][NextD1]_vars

(***************************************************************************)
(* qi_bot/bot/commands.py: the queries of the schedule on their own.  A    *)
(* document and an instant are drawn; the forward scan, the backward scan  *)
(* or the query of one day is applied, the scans one inspected day per     *)
(* step.                                                                   *)
(***************************************************************************)
\* number of dates, from FirstDate on, at which a query may be made
QueryDays == 3

T930 == << "9", ":", "3", "0" >>
T1200 == << "1", "2", ":", "0", "0" >>
T1300 == << "1", "3", ":", "0", "0" >>

\* a document whose days in ds hold the list evs
DaysDoc(ds, evs) ==
    [days |-> DictV([d \in ds |-> ListV(evs)]), templates |-> DictV(EmptyDict)]

\* the event lists a day of a queried document may hold
QueryLists ==
    { << Ev(T1000, << "A" >>) >>,
      << Ev(T1010, << "A" >>), Ev(T1000, << "B" >>), Ev(T1010, << "C" >>) >>,
      << Ev(T1000, << "A" >>), Ev(T930, << "B" >>), Ev(T1000, << "C" >>) >>,
      << Ev(T1000, << "A" >>), Ev(T0930, << "B" >>), Ev(TNonNum, << "C" >>) >>,
      << Ev(T1000, << "A" >>), [text |-> Str(<< "B" >>)] >>,
      << Ev(T1300, << "A" >>), Ev(T1200, << "B" >>), Ev(T0930, << "C" >>) >>,
      << Ev(T2500, << "A" >>) >> }

\* the documents that are queried: without days, with every day of the
\* cycle empty (as a list, day 3 as an object without events), or with
\* one list of QueryLists on one day or on every day of the cycle
QueryDocs ==
    {EmptyDoc, DaysDoc(1 .. CYCLE_LENGTH, << >>),
     [days |-> DictV([d \in 1 .. CYCLE_LENGTH |->
                        IF d = 3 THEN DictV(EmptyDict) ELSE ListV(<< >>)]),
      templates |-> DictV(EmptyDict)]}
    \cup { DaysDoc(ds, l) : ds \in {{1}, {2}, {14}, 1 .. CYCLE_LENGTH},
                            l \in QueryLists }

\* the instants of the queries: 00:00:00, 09:45:00, 10:00:00, 23:59:59
QueryNows ==
    [date : FirstDate .. (FirstDate + QueryDays - 1),
     sec : {0, 35100, 36000, 86399}]

NoEvent == [t |-> "none", v |-> << >>]
NoInstant == [date |-> NoDate, sec |-> 0]

InitQuery ==
    /\ sent_cache = {}
    /\ current_date_str = NoDate
    /\ scheduler_started = FALSE
    /\ loop_tasks = 0
    /\ slept = 0
    /\ schedule_cache = [p \in PlanIdx |-> NoEntry]
    /\ schedule_mtimes = [p \in PlanIdx |-> NoMtime]
    /\ disk = [p \in PlanIdx |-> [doc |-> "missing", mtime |-> 1]]
    /\ pc = "start"
    /\ planPos = 1
    /\ now = [date |-> FirstDate, sec |-> 0]
    /\ channels = [p \in PlanIdx |-> << >>]
    /\ snapshot_channel = NoChannel
    /\ tickErr = "none"
    /\ called = {}
    /\ evaluated = {}
    /\ captureChecked = FALSE
    /\ cleared = {}
    /\ log = EmptyBag
    /\ epoch = 0
    /\ edits = 0
    /\ reconnects = 0
    /\ cd = NoCycleCheck
    /\ capture = NoCapture
    /\ store_op = NoLoad
    /\ rv = NoResolve
    /\ d1 = NoD1
    /\ lk = NoLedgerRace
    /\ fr = NoRows
    /\ jx = NoJsonx
    /\ \E doc \in QueryDocs, tnow \in QueryNows :
        qy = [pc |-> "ready", kind |-> "none", doc |-> doc, now |-> tnow,
              step |-> 0,
              inspected |-> 0, day |-> 0, dnum |-> 0, ev |-> NoEvent,
              dt |-> NoInstant, list |-> << >>, err |-> "none",
              half |-> "none", evs |-> << >>]

QueryFrozen == << cd, store_op, rv, d1, lk, fr, jx >>

\* _find_first_event_after_today whose loop goes on until a day has events
find_first_event_after_today_unbounded(q) ==
    LET dnum == cycle_day_for(q.now.date + q.step)
        evs == events_for_day(q.doc, dnum)
    IN IF evs.err # "none"
       THEN [q EXCEPT !.pc = "raised", !.err = evs.err, !.inspected = @ + 1]
       ELSE IF evs.v # << >>
       THEN [q EXCEPT !.pc = "found", !.dnum = dnum, !.ev = DictV(evs.v[1]),
                      !.inspected = @ + 1]
       ELSE [q EXCEPT !.step = @ + 1, !.inspected = @ + 1]

\* _find_first_event_after_today(now_dt, schedule_file): one pass of
\* "for step in range(1, settings.CYCLE_LENGTH + 1)", or the return after
\* the loop
find_first_event_after_today(q) ==
    IF q.step > CYCLE_LENGTH THEN [q EXCEPT !.pc = "none"]
    ELSE LET dnum == cycle_day_for(q.now.date + q.step)
             evs == events_for_day(q.doc, dnum)
         IN IF evs.err # "none"
            THEN [q EXCEPT !.pc = "raised", !.err = evs.err, !.inspected = @ + 1]
            ELSE IF evs.v # << >>
            THEN [q EXCEPT !.pc = "found", !.dnum = dnum,
                           !.ev = DictV(evs.v[1]), !.inspected = @ + 1]
            ELSE [q EXCEPT !.step = @ + 1, !.inspected = @ + 1]

\* "for ev in evs" of _find_most_recent_event_across_days for the events of
\* the day dt_day: the time is parsed inside try/except, replace() is not
RECURSIVE most_recent_of_day(_, _, _, _)
most_recent_of_day(q, evs, dt_day, dnum) ==
    IF evs = << >> \/ q.err # "none" THEN q
    ELSE LET t == parse_time(Head(evs))
             ev_dt == [date |-> dt_day, sec |-> t.hh * 3600 + t.mm * 60]
         IN IF t.status = "skip"
            THEN most_recent_of_day(q, Tail(evs), dt_day, dnum)
            ELSE IF t.status = "raise" THEN [q EXCEPT !.err = "ValueError"]
            ELSE IF ~Before(q.now, ev_dt)
                    /\ (q.dt = NoInstant \/ Before(q.dt, ev_dt))
            THEN most_recent_of_day([q EXCEPT !.ev = DictV(Head(evs)),
                                              !.dt = ev_dt, !.dnum = dnum],
                                    Tail(evs), dt_day, dnum)
            ELSE most_recent_of_day(q, Tail(evs), dt_day, dnum)

\* _find_most_recent_event_across_days(now_dt, schedule_file): one pass of
\* "for step in range(0, settings.CYCLE_LENGTH)", or the return after it
find_most_recent_event_across_days(q) ==
    IF q.step >= CYCLE_LENGTH
    THEN [q EXCEPT !.pc = IF q.ev = NoEvent THEN "none" ELSE "found"]
    ELSE LET dt_day == q.now.date - q.step
             dnum == cycle_day_for(dt_day)
             evs == events_for_day(q.doc, dnum)
             q1 == [q EXCEPT !.inspected = @ + 1]
         IN IF evs.err # "none" THEN [q1 EXCEPT !.pc = "raised", !.err = evs.err]
            ELSE LET q2 == most_recent_of_day(q1, evs.v, dt_day, dnum)
                 IN IF q2.err # "none" THEN [q2 EXCEPT !.pc = "raised"]
                    ELSE [q2 EXCEPT !.step = @ + 1]

\* %next on a day without a later event: the forward scan begins
QueryForward ==
    /\ qy.pc = "ready"
    /\ qy' = [qy EXCEPT !.pc = "forward", !.kind = "forward", !.step = 1]
    /\ UNCHANGED SchedulerVars
    /\ UNCHANGED QueryFrozen

ForwardStep ==
    /\ qy.pc = "forward"
    /\ qy' = find_first_event_after_today(qy)
    /\ UNCHANGED SchedulerVars
    /\ UNCHANGED QueryFrozen

\* %now: the backward scan begins
QueryBackward ==
    /\ qy.pc = "ready"
    /\ qy' = [qy EXCEPT !.pc = "backward", !.kind = "backward", !.step = 0]
    /\ UNCHANGED SchedulerVars
    /\ UNCHANGED QueryFrozen

BackwardStep ==
    /\ qy.pc = "backward"
    /\ qy' = find_most_recent_event_across_days(qy)
    /\ UNCHANGED SchedulerVars
    /\ UNCHANGED QueryFrozen

\* %day d: evs = get_events_for_day(d, schedule_file=schedule_file)
QueryDay(d) ==
    /\ qy.pc = "ready"
    /\ LET evs == events_for_day(qy.doc, d)
       IN qy' = [qy EXCEPT !.pc = IF evs.err = "none" THEN "listed" ELSE "raised",
                           !.kind = "day", !.day = d, !.list = evs.v, !.err = evs.err]
    /\ UNCHANGED SchedulerVars
    /\ UNCHANGED QueryFrozen

\* the day numbers of DAYCODE_TO_DAYNUM
HalfDayNums == 1 .. 7

\* _is_in_half of _handle_half_day where 12 still counts as morning
is_in_half_noon_morning(ev, half) ==
    LET t == Get(ev, "time")
        parts == Split(t.v, ":")
        hh == PyInt(parts[1])
        mm == PyInt(parts[2])
    IN IF ~Truthy(t) THEN FALSE
       ELSE IF t.t # "str" \/ Len(parts) # 2 \/ ~hh.ok \/ ~mm.ok THEN FALSE
       ELSE IF half = "morning" THEN hh.v <= 12
       ELSE hh.v > 12

\* _is_in_half(ev) of _handle_half_day: False for a time that is missing,
\* empty or makes hh, mm = map(int, t.split(":")) raise; otherwise the
\* hour is compared with 12
is_in_half(ev, half) ==
    LET t == Get(ev, "time")
        parts == Split(t.v, ":")
        hh == PyInt(parts[1])
        mm == PyInt(parts[2])
    IN IF ~Truthy(t) THEN FALSE
       ELSE IF t.t # "str" \/ Len(parts) # 2 \/ ~hh.ok \/ ~mm.ok THEN FALSE
       ELSE IF half = "morning" THEN hh.v < 12
       ELSE hh.v >= 12

\* selected = [ev for ev in evs if _is_in_half(ev)]
RECURSIVE selected_of(_, _)
selected_of(evs, half) ==
    IF evs = << >> THEN << >>
    ELSE (IF is_in_half(Head(evs), half) THEN << Head(evs) >> ELSE << >>)
         \o selected_of(Tail(evs), half)

\* the half-day command for day d: evs = get_events_for_day(daynum, ...),
\* the reply "no steps scheduled" for an empty day, the selection, and the
\* events of the selection sent in order
QueryHalf(d, half) ==
    /\ qy.pc = "ready"
    /\ LET evs == events_for_day(qy.doc, d)
       IN qy' = [qy EXCEPT !.pc = IF evs.err # "none" THEN "raised"
                                  ELSE IF evs.v = << >> THEN "none"
                                  ELSE "listed",
                           !.kind = "half", !.day = d, !.half = half,
                           !.evs = evs.v, !.list = selected_of(evs.v, half),
                           !.err = evs.err]
    /\ UNCHANGED SchedulerVars
    /\ UNCHANGED QueryFrozen

NextQuery ==
    \/ QueryForward
    \/ ForwardStep
    \/ QueryBackward
    \/ BackwardStep
    \/ \E d \in 1 .. CYCLE_LENGTH : QueryDay(d)
    \/ \E d \in HalfDayNums, half \in {"morning", "evening"} : QueryHalf(d, half)

SpecQuery == InitQuery /\ [][NextQuery]_vars

(***************************************************************************)
(* qi_bot/utils/forge_scrape.py and the rows of a capture run on their     *)
(* own: rows as fetch_players returns them are drawn, build_daily_rows is  *)
(* applied with the thresholds of _run_snapshot_impl, and the result is    *)
(* handed to the first step of insert_daily_snapshot, which collects the   *)
(* name mappings and inserts them into the tables of names.                *)
(***************************************************************************)
\* largest number of rows fetch_players returns
MaxRows == 2

IntV(n) == [t |-> "int", v |-> n]

ERA_ORDER ==
    << << "I", "r", "o", "n", "A", "g", "e" >>,
       << "E", "a", "r", "l", "y", "M", "i", "d", "d", "l", "e", "A", "g", "e" >>,
       << "H", "i", "g", "h", "M", "i", "d", "d", "l", "e", "A", "g", "e" >>,
       << "L", "a", "t", "e", "M", "i", "d", "d", "l", "e", "A", "g", "e" >>,
       << "C", "o", "l", "o", "n", "i", "a", "l", "A", "g", "e" >>,
       << "I", "n", "d", "u", "s", "t", "r", "i", "a", "l", "A", "g", "e" >>,
       << "P", "r", "o", "g", "r", "e", "s", "s", "i", "v", "e", "E", "r", "a" >>,
       << "M", "o", "d", "e", "r", "n", "E", "r", "a" >>,
       << "P", "o", "s", "t", "M", "o", "d", "e", "r", "n", "E", "r", "a" >>,
       << "C", "o", "n", "t", "e", "m", "p", "o", "r", "a", "r", "y", "E", "r", "a" >>,
       << "T", "o", "m", "o", "r", "r", "o", "w", "E", "r", "a" >>,
       << "F", "u", "t", "u", "r", "e", "E", "r", "a" >>,
       << "A", "r", "c", "t", "i", "c", "F", "u", "t", "u", "r", "e" >>,
       << "O", "c", "e", "a", "n", "i", "c", "F", "u", "t", "u", "r", "e" >>,
       << "V", "i", "r", "t", "u", "a", "l", "F", "u", "t", "u", "r", "e" >>,
       << "S", "p", "a", "c", "e", "A", "g", "e", "M", "a", "r", "s" >>,
       << "S", "p", "a", "c", "e", "A", "g", "e", "A", "s", "t", "e", "r", "o", "i", "d", "B", "e", "l", "t" >>,
       << "S", "p", "a", "c", "e", "A", "g", "e", "V", "e", "n", "u", "s" >>,
       << "S", "p", "a", "c", "e", "A", "g", "e", "J", "u", "p", "i", "t", "e", "r", "M", "o", "o", "n" >>,
       << "S", "p", "a", "c", "e", "A", "g", "e", "T", "i", "t", "a", "n" >>,
       << "S", "p", "a", "c", "e", "A", "g", "e", "S", "p", "a", "c", "e", "H", "u", "b" >> >>

\* _coerce_int(value, default): int(value), default when int() raises
coerce_int(value, default) ==
    CASE value.t = "int" -> value.v
      [] value.t = "str" -> (IF PyInt(value.v).ok THEN PyInt(value.v).v ELSE default)
      [] OTHER -> default

\* _extract_era_nr(player)
extract_era_nr(player) ==
    LET raw == IF Truthy(Get(player, "raw")) THEN Get(player, "raw").v ELSE EmptyDict
        era == Get(raw, "era")
        era_str == Strip(IF era.t = "str" THEN era.v ELSE << >>)
        hits == { i \in 1 .. Len(ERA_ORDER) : ERA_ORDER[i] = era_str }
    IN IF hits = {} THEN 0 ELSE CHOOSE i \in hits : TRUE

\* x or y
Or(x, y) == IF Truthy(x) THEN x ELSE y

\* build_daily_rows whose thresholds are exclusive
RECURSIVE build_daily_rows_exclusive(_, _, _)
build_daily_rows_exclusive(rows, min_battles, min_points) ==
    IF rows = << >> THEN << >>
    ELSE LET p == Head(rows)
             player_id == coerce_int(Or(Get(p, "player_id"), Get(p, "playerId")), 0)
             guild_id == coerce_int(Or(Or(Get(p, "guild_id"), Get(p, "guildId")),
                                       IntV(0)), 0)
             points == coerce_int(Get(p, "points"), 0)
             battles == coerce_int(Get(p, "battles"), 0)
             rest == build_daily_rows_exclusive(Tail(rows), min_battles, min_points)
         IN IF player_id <= 0 THEN rest
            ELSE IF battles <= min_battles \/ points <= min_points THEN rest
            ELSE << [player_id |-> IntV(player_id), guild_id |-> IntV(guild_id),
                     era_nr |-> IntV(extract_era_nr(p)), points |-> IntV(points),
                     battles |-> IntV(battles)] >> \o rest

\* build_daily_rows(rows, min_battles, min_points)
RECURSIVE build_daily_rows(_, _, _)
build_daily_rows(rows, min_battles, min_points) ==
    IF rows = << >> THEN << >>
    ELSE LET p == Head(rows)
             player_id == coerce_int(Or(Get(p, "player_id"), Get(p, "playerId")), 0)
             guild_id == coerce_int(Or(Or(Get(p, "guild_id"), Get(p, "guildId")),
                                       IntV(0)), 0)
             points == coerce_int(Get(p, "points"), 0)
             battles == coerce_int(Get(p, "battles"), 0)
             rest == build_daily_rows(Tail(rows), min_battles, min_points)
         IN IF player_id <= 0 THEN rest
            ELSE IF battles < min_battles \/ points < min_points THEN rest
            ELSE << [player_id |-> IntV(player_id), guild_id |-> IntV(guild_id),
                     era_nr |-> IntV(extract_era_nr(p)), points |-> IntV(points),
                     battles |-> IntV(battles)] >> \o rest

\* step 1 of insert_daily_snapshot: the dict of names collected by
\* "for row in rows" under the keys idkey and namekey; a later row of the
\* same id replaces the name of an earlier one
RECURSIVE collect_names(_, _, _, _)
collect_names(rows, idkey, namekey, acc) ==
    IF rows = << >> THEN acc
    ELSE LET id == Get(Head(rows), idkey)
             name == Get(Head(rows), namekey)
             key == IF id.t = "str" THEN PyInt(id.v)
                    ELSE [ok |-> id.t = "int", v |-> id.v]
         IN collect_names(Tail(rows), idkey, namekey,
                IF Truthy(id) /\ Truthy(name) /\ key.ok
                THEN Update(acc, [k \in {key.v} |-> name])
                ELSE acc)

\* INSERT OR IGNORE INTO player_names / guild_names: a stored mapping wins
insert_or_ignore(table, names) ==
    [id \in DOMAIN table \cup DOMAIN names |->
        IF id \in DOMAIN table THEN table[id] ELSE names[id]]

NameNew == Str(<< "N", "e", "w" >>)
NameOld == Str(<< "O", "l", "d" >>)
GuildName == Str(<< "G" >>)

\* the rows fetch_players may return: an id under player_id (1, 2, 0) or
\* under playerId (4), battles below, at (as a string of digits) and above
\* the threshold or null, points below and at the threshold, with or
\* without the names of the player and of the guild
RowPool ==
    { MkDict([player_id |-> id[1], playerId |-> id[2], guild_id |-> IntV(9),
              raw |-> DictV([era |-> Str(ERA_ORDER[2])]),
              points |-> pts, battles |-> bt,
              player_name |-> nm[1], guild_name |-> nm[2]]) :
        id \in {<< IntV(1), Absent >>, << IntV(2), Absent >>,
                << IntV(0), Absent >>, << Absent, IntV(4) >>},
        bt \in {IntV(9999), Str(<< "1", "0", "0", "0", "0" >>), IntV(10001), NoneV},
        pts \in {IntV(4999999), IntV(5000000)},
        nm \in {<< Absent, Absent >>, << NameNew, GuildName >>} }

RECURSIVE SeqsUpTo(_, _)
SeqsUpTo(S, n) ==
    IF n = 0 THEN {<< >>}
    ELSE LET shorter == SeqsUpTo(S, n - 1)
         IN shorter \cup { Append(s, x) : s \in shorter, x \in S }

InitRows ==
    /\ sent_cache = {}
    /\ current_date_str = NoDate
    /\ scheduler_started = FALSE
    /\ loop_tasks = 0
    /\ slept = 0
    /\ schedule_cache = [p \in PlanIdx |-> NoEntry]
    /\ schedule_mtimes = [p \in PlanIdx |-> NoMtime]
    /\ disk = [p \in PlanIdx |-> [doc |-> "missing", mtime |-> 1]]
    /\ pc = "start"
    /\ planPos = 1
    /\ now = [date |-> FirstDate, sec |-> 0]
    /\ channels = [p \in PlanIdx |-> << >>]
    /\ snapshot_channel = NoChannel
    /\ tickErr = "none"
    /\ called = {}
    /\ evaluated = {}
    /\ captureChecked = FALSE
    /\ cleared = {}
    /\ log = EmptyBag
    /\ epoch = 0
    /\ edits = 0
    /\ reconnects = 0
    /\ cd = NoCycleCheck
    /\ capture = NoCapture
    /\ store_op = NoLoad
    /\ rv = NoResolve
    /\ d1 = NoD1
    /\ lk = NoLedgerRace
    /\ qy = NoQuery
    /\ jx = NoJsonx
    /\ \E rows \in SeqsUpTo(RowPool, MaxRows) :
        fr = [pc |-> "fetched", rows |-> rows, out |-> << >>,
              player_names |-> [id \in {1} |-> NameOld],
              guild_names |-> EmptyDict]

RowsFrozen == << cd, store_op, rv, d1, lk, qy, jx >>

\* filtered_rows = await asyncio.to_thread(build_daily_rows, rows, 10_000,
\* 5_000_000)
RowsFilter ==
    /\ fr.pc = "fetched"
    /\ fr' = [fr EXCEPT !.pc = "filtered",
                        !.out = build_daily_rows(fr.rows, 10000, 5000000)]
    /\ UNCHANGED SchedulerVars
    /\ UNCHANGED RowsFrozen

\* insert_daily_snapshot(filtered_rows), step 1: the names of the rows are
\* collected and inserted where the id has no name yet (a table is only
\* written when names were collected for it)
RowsUpsertNames ==
    /\ fr.pc = "filtered"
    /\ LET players == collect_names(fr.out, "player_id", "player_name", EmptyDict)
           guilds == collect_names(fr.out, "guild_id", "guild_name", EmptyDict)
       IN fr' = [fr EXCEPT !.pc = "named",
                           !.player_names = insert_or_ignore(@, players),
                           !.guild_names = insert_or_ignore(@, guilds)]
    /\ UNCHANGED SchedulerVars
    /\ UNCHANGED RowsFrozen

NextRows == RowsFilter \/ RowsUpsertNames

SpecRows == InitRows /\ [][NextRows]_vars

(***************************************************************************)
(* qi_bot/scheduler/loop.py: the ledger and its lock on their own.  Two    *)
(* tasks of the event loop use _sent_cache: the scheduler task (the clear  *)
(* of a new day, _send_event for the due events, the capture trigger) and  *)
(* a task that runs _send_preview, whose _send_event builds the key of     *)
(* the event of index 0 at 00:00.  Every statement of a critical section   *)
(* is one step and the tasks interleave between any two steps; the event   *)
(* loop switches tasks only at an await, which is one of these schedules.  *)
(***************************************************************************)
\* ticks of the scheduler task
MaxTicks == 2

\* _send_preview calls of the other task
MaxPreviews == 2

TickTask == 1
DemandTask == 2
LedgerTasks == {TickTask, DemandTask}

\* the key of the event of index 0 at 00:00 on the channel of the preview,
\* the key of another due event, the key of the capture job
KeyShared == "ch|date|00:00|0"
KeyOther == "ch|date|00:05|1"
KeyCapture == "d1-snapshot|date|04:00"
LedgerKeys == {KeyShared, KeyOther, KeyCapture}

\* the keys one tick tests, in the order of the tick
TickCalls == << KeyShared, KeyOther, KeyCapture >>

IdleTask == [pc |-> "idle", key |-> "", pos |-> 0]

InitLedger ==
    /\ sent_cache = {}
    /\ current_date_str = NoDate
    /\ scheduler_started = FALSE
    /\ loop_tasks = 0
    /\ slept = 0
    /\ schedule_cache = [p \in PlanIdx |-> NoEntry]
    /\ schedule_mtimes = [p \in PlanIdx |-> NoMtime]
    /\ disk = [p \in PlanIdx |-> [doc |-> "missing", mtime |-> 1]]
    /\ pc = "start"
    /\ planPos = 1
    /\ now = [date |-> FirstDate, sec |-> 0]
    /\ channels = [p \in PlanIdx |-> << >>]
    /\ snapshot_channel = NoChannel
    /\ tickErr = "none"
    /\ called = {}
    /\ evaluated = {}
    /\ captureChecked = FALSE
    /\ cleared = {}
    /\ log = EmptyBag
    /\ epoch = 0
    /\ edits = 0
    /\ reconnects = 0
    /\ cd = NoCycleCheck
    /\ capture = NoCapture
    /\ store_op = NoLoad
    /\ rv = NoResolve
    /\ d1 = NoD1
    /\ qy = NoQuery
    /\ fr = NoRows
    /\ jx = NoJsonx
    /\ lk = [pc |-> "on", locked |-> FALSE, ledger |-> {}, ticks |-> 0,
             previews |-> 0,
             tested |-> [k \in LedgerKeys |-> {}],
             absent |-> [k \in LedgerKeys |-> << >>],
             tasks |-> [t \in LedgerTasks |-> IdleTask]]

LedgerFrozen == << cd, store_op, rv, d1, qy, fr, jx >>

\* a lock that is taken whether it is held or not
lock_acquire_unguarded(locked) == [locked |-> TRUE, entered |-> TRUE]

\* async with _sent_cache_lock: the task enters when the lock is free
lock_acquire(locked) == [locked |-> TRUE, entered |-> ~locked]

\* the statements of the tick after the call at position pos of TickCalls
AfterCall(st, t) ==
    IF t = DemandTask THEN [st EXCEPT !.tasks[t] = IdleTask]
    ELSE IF st.tasks[t].pos < Len(TickCalls)
    THEN [st EXCEPT !.tasks[t] = [pc |-> "acquire",
                                  key |-> TickCalls[st.tasks[t].pos + 1],
                                  pos |-> st.tasks[t].pos + 1]]
    ELSE [st EXCEPT !.tasks[t] = IdleTask]

\* "while not client.is_closed()": a tick begins; on a new day it clears
\* the ledger first, else it goes to the first due event
LedgerBeginTick(newday) ==
    /\ lk.pc = "on" /\ lk.tasks[TickTask].pc = "idle" /\ lk.ticks < MaxTicks
    /\ lk' = [lk EXCEPT !.ticks = @ + 1,
                        !.tasks[TickTask] =
                            IF newday THEN [pc |-> "clear_acquire", key |-> "", pos |-> 0]
                            ELSE [pc |-> "acquire", key |-> TickCalls[1], pos |-> 1]]
    /\ UNCHANGED SchedulerVars
    /\ UNCHANGED LedgerFrozen

\* the other task calls _send_preview, which reaches _send_event
LedgerPreview ==
    /\ lk.pc = "on" /\ lk.tasks[DemandTask].pc = "idle" /\ lk.previews < MaxPreviews
    /\ lk' = [lk EXCEPT !.previews = @ + 1,
                        !.tasks[DemandTask] =
                            [pc |-> "acquire", key |-> KeyShared, pos |-> 0]]
    /\ UNCHANGED SchedulerVars
    /\ UNCHANGED LedgerFrozen

\* async with _sent_cache_lock, the entry
LedgerAcquire(t) ==
    /\ lk.pc = "on" /\ lk.tasks[t].pc \in {"acquire", "clear_acquire"}
    /\ lock_acquire(lk.locked).entered
    /\ lk' = [lk EXCEPT !.locked = lock_acquire(lk.locked).locked,
                        !.tasks[t].pc = IF @ = "acquire" THEN "test" ELSE "clear"]
    /\ UNCHANGED SchedulerVars
    /\ UNCHANGED LedgerFrozen

\* _sent_cache = set()
LedgerClear(t) ==
    /\ lk.pc = "on" /\ lk.tasks[t].pc = "clear"
    /\ lk' = [lk EXCEPT !.ledger = {},
                        !.tested = [k \in LedgerKeys |-> {}],
                        !.absent = [k \in LedgerKeys |-> << >>],
                        !.tasks[t].pc = "clear_release"]
    /\ UNCHANGED SchedulerVars
    /\ UNCHANGED LedgerFrozen

\* if key in _sent_cache: return
LedgerTest(t) ==
    /\ lk.pc = "on" /\ lk.tasks[t].pc = "test"
    /\ LET key == lk.tasks[t].key
       IN lk' = [lk EXCEPT !.tested[key] = @ \cup {t},
                           !.absent[key] = IF key \in lk.ledger THEN @
                                           ELSE Append(@, t),
                           !.tasks[t].pc = IF key \in lk.ledger THEN "return"
                                           ELSE "insert"]
    /\ UNCHANGED SchedulerVars
    /\ UNCHANGED LedgerFrozen

\* _sent_cache.add(key)
LedgerInsert(t) ==
    /\ lk.pc = "on" /\ lk.tasks[t].pc = "insert"
    /\ lk' = [lk EXCEPT !.ledger = @ \cup {lk.tasks[t].key},
                        !.tasks[t].pc = "release"]
    /\ UNCHANGED SchedulerVars
    /\ UNCHANGED LedgerFrozen

\* the end of the async with block: the lock is released; after the clear
\* the tick goes to its first event, after "return" the call is over,
\* else the task goes on to send (or to run the capture job)
LedgerRelease(t) ==
    /\ lk.pc = "on" /\ lk.tasks[t].pc \in {"release", "return", "clear_release"}
    /\ lk' = IF lk.tasks[t].pc = "release"
             THEN [lk EXCEPT !.locked = FALSE, !.tasks[t].pc = "send"]
             ELSE [AfterCall(lk, t) EXCEPT !.locked = FALSE]
    /\ UNCHANGED SchedulerVars
    /\ UNCHANGED LedgerFrozen

\* await channel.send(...) or await _run_snapshot_impl(...) is over
LedgerSendDone(t) ==
    /\ lk.pc = "on" /\ lk.tasks[t].pc = "send"
    /\ lk' = AfterCall(lk, t)
    /\ UNCHANGED SchedulerVars
    /\ UNCHANGED LedgerFrozen

NextLedger ==
    \/ \E newday \in BOOLEAN : LedgerBeginTick(newday)
    \/ LedgerPreview
    \/ \E t \in LedgerTasks : LedgerAcquire(t)
    \/ \E t \in LedgerTasks : LedgerClear(t)
    \/ \E t \in LedgerTasks : LedgerTest(t)
    \/ \E t \in LedgerTasks : LedgerInsert(t)
    \/ \E t \in LedgerTasks : LedgerRelease(t)
    \/ \E t \in LedgerTasks : LedgerSendDone(t)

SpecLedger == InitLedger /\ [][NextLedger]_vars

(***************************************************************************)
(* qi_bot/scheduler/loop.py around midnight: the scheduler with a document *)
(* whose event is at 23:55 and a clock that is read shortly before and     *)
(* shortly after 00:00.                                                    *)
(***************************************************************************)
\* 23:54:00 and 23:55:00 on every date but the last, 00:00:00 and 00:04:00
\* on every date but the first
LateInstants ==
    { t \in [date : FirstDate .. (FirstDate + NumDays - 1),
             sec : {0, 240, 86040, 86100}] :
        /\ (t.sec >= 86040 => t.date < FirstDate + NumDays - 1)
        /\ (t.sec <= 240 => t.date > FirstDate) }

InitMidnight ==
    /\ sent_cache = {}
    /\ current_date_str = NoDate
    /\ scheduler_started = FALSE
    /\ loop_tasks = 0
    /\ slept = 0
    /\ lk = NoLedgerRace
    /\ qy = NoQuery
    /\ fr = NoRows
    /\ jx = NoJsonx
    /\ schedule_cache = [p \in PlanIdx |-> NoEntry]
    /\ schedule_mtimes = [p \in PlanIdx |-> NoMtime]
    /\ disk \in [PlanIdx -> [doc : {"late", "midnight", "good"}, mtime : {1}]]
    /\ pc = "start"
    /\ planPos = 1
    /\ now = [date |-> FirstDate, sec |-> 0]
    /\ channels = [p \in PlanIdx |-> << >>]
    /\ snapshot_channel = NoChannel
    /\ tickErr = "none"
    /\ called = {}
    /\ evaluated = {}
    /\ captureChecked = FALSE
    /\ cleared = {}
    /\ log = EmptyBag
    /\ epoch = 0
    /\ edits = 0
    /\ reconnects = 0
    /\ cd = NoCycleCheck
    /\ capture = NoCapture
    /\ store_op = NoLoad
    /\ rv = NoResolve
    /\ d1 = NoD1

BeginTickLate == BeginTickAt(LateInstants)

NextMidnight ==
    \/ OnReady
    \/ LoopInit
    \/ BeginTickLate
    \/ PlanStep
    \/ CaptureStep

SpecMidnight == InitMidnight /\ [][NextMidnight]_vars

\* "for idx, ev in enumerate(events)" of _send_preview: dt is 00:00 of
\* for_date, whatever the time of the event
RECURSIVE preview_loop(_, _, _, _, _, _, _)
preview_loop(acc, ch, for_date, events, idx, data, sendFails) ==
    IF events = << >> THEN acc
    ELSE preview_loop(
            send_event(acc, ch, [date |-> for_date, sec |-> 0], 0, 0,
                       Head(events), idx, data, sendFails),
            ch, for_date, Tail(events), idx + 1, data, sendFails)

\* _send_preview(channel, for_date) for a channel ch of plan p; the two
\* sends of headers are not recorded
send_preview(acc, p, ch, for_date, file, sendFails) ==
    LET gd == get_schedule_data([cache |-> acc.cache, mtimes |-> acc.mtimes],
                                file, p)
        data == DocOf(gd.cache[p])
        evs == events_for_day(data, cycle_day_for(for_date))
        acc1 == [acc EXCEPT !.cache = gd.cache, !.mtimes = gd.mtimes]
    IN IF gd.err # "none" THEN [acc EXCEPT !.err = gd.err]
       ELSE IF evs.err # "none" THEN [acc1 EXCEPT !.err = evs.err]
       ELSE preview_loop(acc1, ch, for_date, evs.v, 0, data, sendFails)

\* the entries a preview made, marked as such and with the second of the
\* clock the loop read last
PreviewEntries(entries) ==
    SetToBag({ [e EXCEPT !.outcome = "previewed", !.at = now.sec] :
                e \in BagToSet(entries) })

\* a send of this tick was awaited: other coroutines may have run
TickAwaited ==
    \E e \in BagToSet(log) :
        e.epoch = epoch /\ e.at = now.sec /\ e.key \in called
            /\ e.outcome \in {"sent", "failed"}

\* send_preview(channel, for_date) from a handler, for the c-th channel of
\* plan p: while the loop sleeps, or while a send of the tick is awaited
\* (the previews of the model are asked in the first channel of a plan,
\* for the date the loop read last)
Preview(p, c, for_date) ==
    /\ pc = "idle" \/ (pc = "plan" /\ planPos > 1 /\ TickAwaited)
    /\ c \in 1 .. Len(SCHEDULE_PLANS[p].channel_ids)
    /\ \E sendFails \in BOOLEAN :
        \E acc \in {send_preview([ledger |-> sent_cache, log |-> EmptyBag,
                                   called |-> {}, evaluated |-> {},
                                   cache |-> schedule_cache,
                                   mtimes |-> schedule_mtimes, err |-> "none"],
                                  p, SCHEDULE_PLANS[p].channel_ids[c], for_date,
                                  disk[p], sendFails)} :
           /\ sent_cache' = acc.ledger
           /\ log' = log (+) PreviewEntries(acc.log)
           /\ schedule_cache' = acc.cache
           /\ schedule_mtimes' = acc.mtimes
    /\ UNCHANGED << current_date_str, scheduler_started, disk, pc, planPos, now,
                    channels, snapshot_channel, tickErr, called, evaluated,
                    captureChecked, capture, cleared, epoch, edits, reconnects,
                    cd, store_op, rv, d1, loop_tasks, slept, lk, qy, fr, jx >>

NextPreview ==
    \/ OnReady
    \/ LoopInit
    \/ BeginTickLate
    \/ PlanStep
    \/ CaptureStep
    \/ \E p \in PlanIdx : Preview(p, 1, now.date)

SpecPreview == InitMidnight /\ [][NextPreview]_vars

(***************************************************************************)
(* qi_bot/utils/jsonx.py: strip_comments_and_trailing_commas on its own.   *)
(* A text is a sequence of characters; the characters that TLA+ strings    *)
(* cannot hold are named.  The texts are the concatenations of at most     *)
(* MaxTokens pieces: string literals that hold comment marks and a comma   *)
(* before a bracket, the three kinds of comment, and single characters.    *)
(***************************************************************************)
\* largest number of pieces of a text
MaxTokens == 4

NL == "NL"
CR == "CR"
TAB == "TAB"
DQ == "DQ"
SQ == "SQ"
BS == "BS"

\* "//,]"  and  "\"/*#"
TStrA == << DQ, "/", "/", ",", "]", DQ >>
TStrB == << DQ, BS, DQ, "/", "*", "#", DQ >>
\* //",   /*"]*/   #"
TLine == << "/", "/", DQ, "," >>
TBlock == << "/", "*", DQ, "]", "*", "/" >>
THash == << "#", DQ >>

JsonxTokens ==
    {TStrA, TStrB, TLine, TBlock, THash, << "[" >>, << "]" >>, << "," >>,
     << "1" >>, << " " >>, << NL >>}

RECURSIVE Flatten(_)
Flatten(toks) == IF toks = << >> THEN << >> ELSE Head(toks) \o Flatten(Tail(toks))

\* the branch "if in_string" that does not look at escape
string_step_no_escape(s, ch) ==
    IF ch = s.string_quote
    THEN [s EXCEPT !.out = Append(@, ch), !.in_string = FALSE, !.string_quote = ""]
    ELSE [s EXCEPT !.out = Append(@, ch)]

\* the branch "if in_string" of both loops: the character is kept, a
\* backslash escapes the next character, the quote that opened the string
\* closes it
string_step(s, ch) ==
    LET t == [s EXCEPT !.out = Append(@, ch)]
    IN IF s.escape THEN [t EXCEPT !.escape = FALSE]
       ELSE IF ch = BS THEN [t EXCEPT !.escape = TRUE]
       ELSE IF ch = s.string_quote
       THEN [t EXCEPT !.in_string = FALSE, !.string_quote = ""]
       ELSE t

\* j = len(out_chars) - 1; while j >= 0 and out_chars[j] in (" ", "\t"):
\* j -= 1; j < 0 or out_chars[j] == "\n"
at_line_start(out_chars) ==
    LET solid == { j \in 1 .. Len(out_chars) : out_chars[j] \notin {" ", TAB} }
    IN solid = {} \/ out_chars[CHOOSE j \in solid : \A k \in solid : k <= j] = NL

LoopStart ==
    [out |-> << >>, in_string |-> FALSE, string_quote |-> "", escape |-> FALSE,
     in_line_comment |-> FALSE, in_block_comment |-> FALSE, iters |-> 0]

\* the first loop, "while i < n", from index i on (indices from 1);
\* iters counts the passes of the loop
RECURSIVE remove_comments(_, _, _)
remove_comments(text, i, s) ==
    IF i > Len(text) THEN s
    ELSE LET ch == text[i]
             peek1 == IF i + 1 <= Len(text) THEN text[i + 1] ELSE ""
             t == [s EXCEPT !.iters = @ + 1]
         IN IF s.in_line_comment
            THEN remove_comments(text, i + 1,
                    IF ch = NL
                    THEN [t EXCEPT !.in_line_comment = FALSE, !.out = Append(@, ch)]
                    ELSE t)
            ELSE IF s.in_block_comment
            THEN (IF ch = "*" /\ peek1 = "/"
                  THEN remove_comments(text, i + 2,
                                       [t EXCEPT !.in_block_comment = FALSE])
                  ELSE remove_comments(text, i + 1, t))
            ELSE IF s.in_string
            THEN remove_comments(text, i + 1, string_step(t, ch))
            ELSE IF ch \in {SQ, DQ}
            THEN remove_comments(text, i + 1,
                    [t EXCEPT !.in_string = TRUE, !.string_quote = ch,
                              !.out = Append(@, ch)])
            ELSE IF ch = "/" /\ peek1 = "/"
            THEN remove_comments(text, i + 2, [t EXCEPT !.in_line_comment = TRUE])
            ELSE IF ch = "/" /\ peek1 = "*"
            THEN remove_comments(text, i + 2, [t EXCEPT !.in_block_comment = TRUE])
            ELSE IF ch = "#" /\ at_line_start(s.out)
            THEN remove_comments(text, i + 1, [t EXCEPT !.in_line_comment = TRUE])
            ELSE remove_comments(text, i + 1, [t EXCEPT !.out = Append(@, ch)])

\* k = i + 1; while k < n and text2[k] in (" ", "\t", "\r", "\n"): k += 1;
\* k < n and text2[k] in ("}", "]")
before_closing_bracket(text2, i) ==
    LET solid == { k \in (i + 1) .. Len(text2) : text2[k] \notin {" ", TAB, CR, NL} }
    IN solid # {} /\ text2[CHOOSE k \in solid : \A m \in solid : k <= m] \in {"}", "]"}

\* the second loop, over text2
RECURSIVE remove_trailing_commas(_, _, _)
remove_trailing_commas(text2, i, s) ==
    IF i > Len(text2) THEN s
    ELSE LET ch == text2[i]
             t == [s EXCEPT !.iters = @ + 1]
         IN IF s.in_string
            THEN remove_trailing_commas(text2, i + 1, string_step(t, ch))
            ELSE IF ch \in {DQ, SQ}
            THEN remove_trailing_commas(text2, i + 1,
                    [t EXCEPT !.in_string = TRUE, !.string_quote = ch,
                              !.out = Append(@, ch)])
            ELSE IF ch = "," /\ before_closing_bracket(text2, i)
            THEN remove_trailing_commas(text2, i + 1, t)
            ELSE remove_trailing_commas(text2, i + 1, [t EXCEPT !.out = Append(@, ch)])

RECURSIVE TokenSeqs(_)
TokenSeqs(n) ==
    IF n = 0 THEN {<< >>}
    ELSE LET shorter == TokenSeqs(n - 1)
         IN shorter \cup { Append(s, x) : s \in shorter, x \in JsonxTokens }

InitJsonx ==
    /\ sent_cache = {}
    /\ current_date_str = NoDate
    /\ scheduler_started = FALSE
    /\ loop_tasks = 0
    /\ slept = 0
    /\ schedule_cache = [p \in PlanIdx |-> NoEntry]
    /\ schedule_mtimes = [p \in PlanIdx |-> NoMtime]
    /\ disk = [p \in PlanIdx |-> [doc |-> "missing", mtime |-> 1]]
    /\ pc = "start"
    /\ planPos = 1
    /\ now = [date |-> FirstDate, sec |-> 0]
    /\ channels = [p \in PlanIdx |-> << >>]
    /\ snapshot_channel = NoChannel
    /\ tickErr = "none"
    /\ called = {}
    /\ evaluated = {}
    /\ captureChecked = FALSE
    /\ cleared = {}
    /\ log = EmptyBag
    /\ epoch = 0
    /\ edits = 0
    /\ reconnects = 0
    /\ cd = NoCycleCheck
    /\ capture = NoCapture
    /\ store_op = NoLoad
    /\ rv = NoResolve
    /\ d1 = NoD1
    /\ lk = NoLedgerRace
    /\ qy = NoQuery
    /\ fr = NoRows
    /\ \E toks \in TokenSeqs(MaxTokens) :
        jx = [pc |-> "ready", toks |-> toks, text |-> Flatten(toks),
              text2 |-> << >>, out |-> << >>, iters1 |-> 0, iters2 |-> 0]

JsonxFrozen == << cd, store_op, rv, d1, lk, qy, fr >>

\* the first loop of strip_comments_and_trailing_commas(text) and
\* text2 = "".join(out_chars)
JsonxComments ==
    /\ jx.pc = "ready"
    /\ \E r \in {remove_comments(jx.text, 1, LoopStart)} :
        jx' = [jx EXCEPT !.pc = "stripped", !.text2 = r.out, !.iters1 = r.iters]
    /\ UNCHANGED SchedulerVars
    /\ UNCHANGED JsonxFrozen

\* the second loop and return "".join(out_chars)
JsonxCommas ==
    /\ jx.pc = "stripped"
    /\ \E r \in {remove_trailing_commas(jx.text2, 1, LoopStart)} :
        jx' = [jx EXCEPT !.pc = "done", !.out = r.out, !.iters2 = r.iters]
    /\ UNCHANGED SchedulerVars
    /\ UNCHANGED JsonxFrozen

NextJsonx == JsonxComments \/ JsonxCommas

SpecJsonx == InitJsonx /\ [][NextJsonx]_vars

(***************************************************************************)
(* Properties                                                              *)
(***************************************************************************)
LogEntries == BagToSet(log)

\* number of times channel.send was invoked for key in run e of the process
SendCount(key, e) ==
    LET S == { r \in LogEntries : r.key = key /\ r.epoch = e
                                  /\ r.outcome \in {"sent", "failed"} }
    IN IF S = {} THEN 0 ELSE BagCardinality([r \in S |-> log[r]])

\* C1: within one run of the process and one date, channel.send is invoked
\* at most once for each (destination, event time, event index), and the key
\* of every send of the running process is in the ledger.
C1_AtMostOncePerKey ==
    \A r \in LogEntries :
        (r.key.kind = "msg" /\ r.outcome \in {"sent", "failed"}) =>
            /\ SendCount(r.key, r.epoch) <= 1
            /\ (r.epoch = epoch => r.key \in sent_cache)

\* a later tick of the same run called _send_event for a key sent before
C1_Witness ==
    \E r \in LogEntries :
        /\ r.outcome = "sent" /\ r.epoch = epoch
        /\ r.at < now.sec /\ r.key \in called

\* every event whose due test the tick has evaluated was handed to
\* _send_event, for every channel of its plan, iff it is due
C2_EvaluatedIffDue ==
    \A e \in evaluated :
        LET s == e.hm[1] * 3600 + e.hm[2] * 60
            due == now.sec >= s /\ now.sec - s <= 600
        IN \A i \in 1 .. Len(channels[e.plan]) :
              (MsgKey(channels[e.plan][i], now.date, e.hm[1], e.hm[2], e.idx)
                  \in called) <=> due

\* the step in which the tick finishes the plan at planPos
C2_PlanHandled ==
    /\ pc = "plan" /\ epoch' = epoch /\ tickErr' = "none"
    /\ (pc' = "capture" \/ planPos' = planPos + 1)

\* C2: in a tick that reads now, an event of today's list with a valid
\* time is handed to _send_event, for every channel of its plan, iff
\* 0 <= now - scheduled <= 10 minutes: this holds for every event of a plan
\* the tick finishes, and for every event whose due test a tick evaluates.
C2_DispatchedIffDue ==
    [][ /\ C2_EvaluatedIffDue'
        /\ C2_PlanHandled =>
            LET evs == events_for_day(DocOf(schedule_cache'[planPos]),
                                      cycle_day_for(now.date)).v
            IN \A i \in 1 .. Len(evs) :
                LET t == parse_time(evs[i])
                    s == t.hh * 3600 + t.mm * 60
                IN t.status = "ok" =>
                    \A c \in 1 .. Len(channels[planPos]) :
                        (MsgKey(channels[planPos][c], now.date, t.hh, t.mm, i - 1)
                            \in called')
                        <=> (now.sec >= s /\ now.sec - s <= 600) ]_vars

\* the event of 10:00 is dispatched by the tick of 10:10:00
C2_Witness ==
    \E e \in evaluated :
        /\ e.hm = << 10, 0 >> /\ now.sec = 36600
        /\ channels[e.plan] # << >>
        /\ MsgKey(channels[e.plan][1], now.date, 10, 0, e.idx) \in called

\* C3: the key of an event whose resolved message is empty is not in the
\* ledger.
C3_EmptyNotRecorded ==
    \A r \in LogEntries :
        (r.outcome = "empty" /\ r.epoch = epoch) => r.key \notin sent_cache

\* C4: after a send that raised, the key is in the ledger, the exception
\* did not leave the tick, and the running process made no other send for
\* that key.
C4_FailedSendRecorded ==
    /\ tickErr # "HTTPException"
    /\ \A r \in LogEntries :
        r.outcome = "failed" =>
            /\ (r.epoch = epoch => r.key \in sent_cache)
            /\ SendCount(r.key, r.epoch) = 1

\* a later tick of the same run called _send_event for a key whose send
\* had failed
C4_Witness ==
    \E r \in LogEntries :
        /\ r.outcome = "failed" /\ r.epoch = epoch
        /\ r.at < now.sec /\ r.key \in called

\* C5: the step of a tick that observes a new date empties the ledger and
\* records the date, and leaves the schedule cache and its mtimes alone.
C5_RolloverClearsLedgerOnly ==
    [][ (pc = "idle" /\ pc' = "plan" /\ current_date_str # now'.date) =>
            /\ sent_cache' = {}
            /\ current_date_str' = now'.date
            /\ schedule_cache' = schedule_cache
            /\ schedule_mtimes' = schedule_mtimes ]_vars

\* a rollover has just removed a message key and a capture key while
\* documents are cached
C5_Witness ==
    /\ pc = "plan" /\ planPos = 1 /\ called = {}
    /\ sent_cache = {}
    /\ \E k \in cleared : k.kind = "msg"
    /\ \E k \in cleared : k.kind = "d1"
    /\ \A p \in PlanIdx : schedule_cache[p] \notin {NoEntry, "EMPTY"}

\* C6: within a run of the process the ledger loses keys only in the step
\* of a tick that observes a date other than the last observed one.
C6_LedgerShrinksOnlyAtRollover ==
    [][ \/ sent_cache \subseteq sent_cache'
        \/ /\ pc = "idle" /\ pc' = "plan"
           /\ current_date_str # now'.date
           /\ current_date_str' = now'.date
        \/ epoch' # epoch ]_vars

\* a tick on the last observed date has begun and the ledger still holds a
\* message key and a capture key
C6_Witness ==
    /\ pc = "plan" /\ planPos = 1 /\ called = {} /\ cleared = {}
    /\ \E k \in sent_cache : k.kind = "msg"
    /\ \E k \in sent_cache : k.kind = "d1"

\* C7: a restarted process starts with an empty ledger, and when a tick of
\* it dispatches an event that an earlier run had sent, it sends it again.
C7_RestartResends ==
    /\ pc \in {"start", "init"} => sent_cache = {}
    /\ \A r \in LogEntries :
        (r.epoch < epoch /\ r.outcome = "sent" /\ r.key \in called) =>
            \E r2 \in LogEntries :
                /\ r2.key = r.key /\ r2.epoch = epoch
                /\ r2.outcome \in {"sent", "failed"}

\* the same key was sent by the first run and again after the restart
C7_Witness ==
    \E r1 \in LogEntries, r2 \in LogEntries :
        /\ r1.key = r2.key /\ r1.key.kind = "msg"
        /\ r1.epoch = 0 /\ r2.epoch = 1
        /\ r1.outcome = "sent" /\ r2.outcome = "sent"

\* the r in 0 .. n-1 with a - r a multiple of n
TrueMod(a, n) == CHOOSE r \in 0 .. (n - 1) : \E q \in -100 .. 100 : a = q * n + r

\* C8: cycle_day_for(d), and cycle_day_for(d + length days), is the true
\* modulo of the day difference to 2025-10-16 by 14, plus one; it lies in
\* 1 .. 14; 2025-10-16 and 2025-10-30 give 1 and 2025-10-15 gives 14.
C8_CycleDay ==
    cd.pc \in {"done", "next"} =>
        LET delta == ToOrdinal(cd.d[1], cd.d[2], cd.d[3]) - ToOrdinal(2025, 10, 16)
        IN /\ cd.res = TrueMod(delta, 14) + 1
           /\ cd.res \in 1 .. 14
           /\ cd.d \in {<< 2025, 10, 16 >>, << 2025, 10, 30 >>} => cd.res = 1
           /\ cd.d = << 2025, 10, 15 >> => cd.res = 14

\* the day before the cycle start, one cycle later
C8_Witness == cd.pc = "next" /\ cd.d = << 2025, 10, 15 >> /\ cd.res = 14

\* C9: a tick that meets an event whose time is missing or is no valid
\* hour:minute pair still handles the later plans and the capture trigger.
C9_BadTimeSkipped ==
    (pc = "idle" /\ tickErr \in {"KeyError", "TypeError", "ValueError"}) =>
        captureChecked

\* C10: when the refresh of one plan raises, the plans after it that have
\* channels and a loadable document with events today still get their due
\* test in that tick.
C10_OtherPlansServed ==
    tickErr = "JSONDecodeError" =>
        \A q \in PlanIdx :
            (q > planPos /\ channels[q] # << >> /\ disk[q].doc = "good"
                /\ cycle_day_for(now.date) \in DocDays) =>
                \E e \in evaluated : e.plan = q

\* C11: a schedule file that does not exist never makes the initial load
\* fail; the step of a tick over a plan whose file does not exist leaves the
\* empty document (days = {}, templates = {}) in the cache, the query for
\* the events of every day number of that document is the empty list
\* without an exception, nothing is handed to _send_event, nothing is sent
\* or recorded, and the tick goes on without an exception.
C11_MissingFileNoEvents ==
    [][ /\ (pc = "init" /\ pc' = "dead") =>
                \E p \in PlanIdx : disk[p].doc = "malformed"
        /\ ( /\ pc = "plan" /\ epoch' = epoch
              /\ (pc' # "plan" \/ planPos' # planPos)
              /\ disk[planPos].doc = "missing" ) =>
                LET data == DocOf(schedule_cache'[planPos])
                IN /\ schedule_cache'[planPos] = "EMPTY"
                   /\ Get(data, "days") = DictV(EmptyDict)
                   /\ Get(data, "templates") = DictV(EmptyDict)
                   /\ \A n \in 1 .. CYCLE_LENGTH :
                        events_for_day(data, n) = [err |-> "none", v |-> << >>]
                   /\ tickErr' = "none" /\ pc' # "idle"
                   /\ called' = called /\ evaluated' = evaluated
                   /\ log' = log /\ sent_cache' = sent_cache ]_vars

\* the tick of 10:00:00 has gone over plan 1, which has channels and whose
\* file does not exist, and handles plan 2
C11_Witness ==
    /\ pc = "plan" /\ planPos = 2 /\ now.sec = 36000
    /\ disk[1].doc = "missing" /\ channels[1] # << >>
    /\ schedule_cache[1] = "EMPTY" /\ tickErr = "none"

\* the entry of the path of plan p is the one the operation found
EntryKept(p) ==
    /\ schedule_cache[p] = store_op.cache[p]
    /\ schedule_mtimes[p] = store_op.mtimes[p]

\* the entry of the path of plan p holds the file the operation found
EntryReplaced(p) ==
    /\ schedule_cache[p] = store_op.file.doc
    /\ schedule_mtimes[p] = store_op.file.mtime

\* the operation found a modification time other than the stored one, or
\* no entry
SignatureChanged ==
    \/ store_op.mtimes[store_op.p] # store_op.file.mtime
    \/ store_op.cache[store_op.p] = NoEntry

\* C12 as stated: a non-forced refresh of an existing file reads the file
\* and replaces the cached document iff the signature changed or nothing is
\* cached; with an unchanged signature the entry is kept and the file is not
\* read; a forced refresh reads and replaces; no other path's entry changes.
C12_RefreshIffChanged ==
    (store_op.op = "load" /\ store_op.file.doc # "missing") =>
        /\ ~store_op.force =>
                ((store_op.read /\ EntryReplaced(store_op.p)) <=> SignatureChanged)
        /\ (~store_op.force /\ ~SignatureChanged) =>
                (~store_op.read /\ EntryKept(store_op.p))
        /\ store_op.force => (store_op.read /\ EntryReplaced(store_op.p))
        /\ \A q \in PlanIdx \ {store_op.p} : EntryKept(q)

\* C12 amended: a refresh of an existing file reads the file iff it is
\* forced, the signature changed or nothing is cached; a file that was read
\* and parses replaces the entry; a file that was read and does not parse
\* makes the refresh raise and the entry and its stored signature are kept;
\* a refresh that does not read keeps the entry; no other path's entry
\* changes.
C12_RefreshIffChangedParsed ==
    (store_op.op = "load" /\ store_op.file.doc # "missing") =>
        /\ store_op.read <=> (store_op.force \/ SignatureChanged)
        /\ (store_op.read /\ store_op.file.doc # "malformed") =>
                (EntryReplaced(store_op.p) /\ store_op.err = "none")
        /\ (store_op.read /\ store_op.file.doc = "malformed") =>
                (EntryKept(store_op.p) /\ store_op.err = "JSONDecodeError")
        /\ ~store_op.read => (EntryKept(store_op.p) /\ store_op.err = "none")
        /\ \A q \in PlanIdx \ {store_op.p} : EntryKept(q)

\* a non-forced refresh found a cached document and a file with another
\* modification time and replaced the document, while the other path holds
\* an entry that is older than its file
C12_Witness ==
    /\ store_op.op = "load" /\ ~store_op.force /\ store_op.read
    /\ store_op.cache[store_op.p] = "good" /\ store_op.mtimes[store_op.p] = 1
    /\ store_op.file = [doc |-> "pair", mtime |-> 2]
    /\ schedule_cache[store_op.p] = "pair"
    /\ \E q \in PlanIdx \ {store_op.p} :
        /\ schedule_cache[q] = "good"
        /\ disk[q] = [doc |-> "pair", mtime |-> 2]

\* the template the event of rv names, and whether the document has it
UsedTemplateName == Get(rv.event, "use")
Templates == Get(rv.doc, "templates").v
TemplatePresent ==
    UsedTemplateName.t = "str" /\ UsedTemplateName.v \in DOMAIN Templates

\* C13: when the event's use names a template of the document, every field
\* of the resolved event other than use and vars is a field of the template
\* or of the event, and it has the event's value when the event has the
\* field and the template's value otherwise (a null image is dropped; a
\* text is compared when no vars are there to format it); template
\* {text: A, image: x.png} with event {use: T, text: B} gives text B and
\* image x.png.
C13_EventWinsOverTemplate ==
    (rv.pc = "done" /\ TemplatePresent) =>
        LET e == rv.event
            t == Templates[UsedTemplateName.v].v
            keys == (DOMAIN t \cup DOMAIN e) \ {"use", "vars"}
            winner(k) == IF k \in DOMAIN e THEN e[k] ELSE t[k]
            vd == IF "vars" \in DOMAIN e THEN e["vars"] ELSE Get(t, "vars")
        IN /\ DOMAIN rv.out \ {"use"} \subseteq keys
           /\ \A k \in keys \ {"text"} :
                IF k = "image" /\ winner(k) = NoneV
                THEN k \notin DOMAIN rv.out
                ELSE k \in DOMAIN rv.out /\ rv.out[k] = winner(k)
           /\ "text" \in keys =>
                /\ "text" \in DOMAIN rv.out
                /\ vd.t # "dict" => rv.out["text"] = winner("text")
           /\ ( /\ Get(t, "text") = Str(<< "A" >>)
                /\ Get(t, "image") = Str(<< "x", ".", "p", "n", "g" >>)
                /\ Get(e, "text") = Str(<< "B" >>)
                /\ "image" \notin DOMAIN e ) =>
                    /\ rv.out["text"] = Str(<< "B" >>)
                    /\ rv.out["image"] = Str(<< "x", ".", "p", "n", "g" >>)

\* template {text: A, image: x.png} and event {time, use: T, text: B} have
\* been resolved
C13_Witness ==
    /\ rv.pc = "done" /\ TemplatePresent
    /\ DOMAIN rv.event = {"time", "use", "text"}
    /\ rv.event["text"] = Str(<< "B" >>)
    /\ Templates[TemplateT] =
          DictV([text |-> Str(<< "A" >>),
                 image |-> Str(<< "x", ".", "p", "n", "g" >>)])
    /\ rv.out = [time |-> Str(T1000), text |-> Str(<< "B" >>),
                 image |-> Str(<< "x", ".", "p", "n", "g" >>)]

\* C14: the event resolve_event returns has neither a use key nor a vars
\* key, whatever the event and the templates of the document carry.
C14_NoUseNoVars ==
    rv.pc = "done" => ("use" \notin DOMAIN rv.out /\ "vars" \notin DOMAIN rv.out)

\* C15: resolve_event raises nothing; when vars is a dict and the text a
\* str, the resolved text is the text with every placeholder replaced when
\* vars has a value for each of them ("Hello {name}" with name = Qi gives
\* "Hello Qi"), and the unchanged text when a placeholder has no value
\* ("Hello {missing}", "{name} {missing}") or is malformed ("Hello {name").
C15_SubstitutionAllOrNothing ==
    rv.pc = "done" =>
        LET e == rv.event
            t == IF TemplatePresent THEN Templates[UsedTemplateName.v].v
                 ELSE EmptyDict
            field(k) == IF k \in DOMAIN e THEN e[k] ELSE Get(t, k)
            text == field("text")
            vd == field("vars")
            has_name == vd.t = "dict" /\ NameKey \in DOMAIN vd.v
        IN /\ \A k \in DOMAIN rv.out : rv.out[k].t # "exception"
           /\ text.t = "str" =>
                rv.out["text"] =
                    IF text.v = HelloName /\ has_name
                    THEN Str(<< "H", "e", "l", "l", "o", " " >> \o vd.v[NameKey].v)
                    ELSE text
           /\ (text.v = HelloName /\ vd = VarsQi) => rv.out["text"] = Str(HelloQi)
           /\ (text.v = HelloMissing /\ vd = DictV(EmptyDict)) =>
                rv.out["text"] = Str(HelloMissing)

\* "{name} {missing}" was resolved with vars {name: Qi}: one placeholder
\* has a value, the other has none, and the text came back unformatted
C15_Witness ==
    /\ rv.pc = "done"
    /\ Get(rv.event, "text") = Str(NameAndMissing)
    /\ Get(rv.event, "vars") = VarsQi
    /\ rv.out["text"] = Str(NameAndMissing)

\* the step in which a tick starts the capture job
CaptureStarts == pc = "capture" /\ pc' = "capture_run"

\* the step in which the capture job returns to the tick that awaits it
CaptureReturns == pc = "capture_run" /\ pc' # "capture_run" /\ epoch' = epoch

\* C16: a tick starts the capture job only when its now lies between
\* 04:00:00 and 04:10:00 of today, the key of today's capture is not in the
\* ledger and the running process has not started a capture on this date;
\* the start puts the key in the ledger, and a tick that finds the key in
\* the ledger does not start the job.
C16_CaptureOncePerDay ==
    [][ /\ CaptureStarts =>
                /\ now.sec >= 14400 /\ now.sec <= 15000
                /\ CaptureKey(now.date) \notin sent_cache
                /\ CaptureKey(now.date) \in sent_cache'
                /\ ~ \E r \in LogEntries :
                        r.key = CaptureKey(now.date) /\ r.epoch = epoch
        /\ ( /\ pc = "capture" /\ epoch' = epoch
              /\ CaptureKey(now.date) \in sent_cache ) => pc' # "capture_run"
      ]_vars

\* the tick of 04:10:00 evaluated the trigger inside the window and did not
\* start the job, which the tick of 04:00:00 of the same run had started
C16_Witness ==
    /\ pc = "idle" /\ now.sec = 15000 /\ captureChecked
    /\ capture.st = "none" /\ tickErr = "none"
    /\ CaptureKey(now.date) \in sent_cache
    /\ \E r \in LogEntries :
        /\ r.key = CaptureKey(now.date) /\ r.outcome = "capture_started"
        /\ r.at = 14400 /\ r.epoch = epoch

\* C17: when the capture job a tick started returns, every event of a plan
\* with channels that became due after that tick read the clock and whose
\* grace window closed before the job returned has been sent to every
\* channel of its plan.
C17_DueDuringCaptureSent ==
    [][ CaptureReturns =>
          \A p \in PlanIdx :
            LET evs == events_for_day(DocOf(schedule_cache[p]),
                                      cycle_day_for(now.date))
            IN (channels[p] # << >> /\ evs.err = "none") =>
                \A i \in 1 .. Len(evs.v) :
                    LET t == parse_time(evs.v[i])
                        s == t.hh * 3600 + t.mm * 60
                    IN ( /\ t.status = "ok" /\ now.sec < s
                         /\ s + 600 < capture'.until ) =>
                        \A c \in 1 .. Len(channels[p]) :
                            MsgKey(channels[p][c], now.date, t.hh, t.mm, i - 1)
                                \in sent_cache'
      ]_vars

\* C20: whichever step of the capture job raises, and whether or not the
\* send of the failure report raises too, no exception leaves
\* _run_snapshot_impl: the tick that awaits it ends without its exception
\* handler and the loop is ready for the next tick; when a step raised and
\* there is a status channel, a failure report was handed to it, and no
\* failure report is made for a job that succeeded.
C20_CaptureFailuresContained ==
    [][ CaptureReturns =>
            /\ pc' = "idle" /\ tickErr' = "none" /\ capture'.st = "done"
            /\ (capture'.fail # "none" /\ snapshot_channel # NoChannel) =>
                    \E i \in 1 .. Len(capture'.reports) :
                        capture'.reports[i].kind = "failure"
            /\ capture'.fail = "none" =>
                    \A i \in 1 .. Len(capture'.reports) :
                        capture'.reports[i] = Report("success", TRUE)
      ]_vars

\* insert_daily_snapshot raised, the failure report was handed to the
\* status channel, its send raised too, and the tick ended normally
C20_Witness ==
    /\ pc = "idle" /\ tickErr = "none"
    /\ capture.st = "done" /\ capture.fail = "insert"
    /\ capture.reports = << Report("failure", FALSE) >>

\* C18: a call of insert_daily_snapshot with a non-empty row list that
\* found a record of today in the store when it began creates no record
\* and inserts no player rows, and when it returns it returns the id and
\* the label of today's earliest record with rows_inserted = 0 and
\* skipped = true.
C18_SecondCallSkips ==
    \A r \in RunIds :
        LET run == d1.runs[r]
        IN (d1.pc = "on" /\ run.n > 0 /\ run.had) =>
            /\ ~run.created /\ run.inserted = 0
            /\ run.result.status = "returned" =>
                LET i == run.result.snapshot_id
                IN /\ run.result.skipped = "true"
                   /\ run.result.rows_inserted = 0
                   /\ i \in SnapshotsOf(d1.snapshots, run.date)
                   /\ run.result.label = [date |-> d1.snapshots[i].date,
                                          at |-> d1.snapshots[i].at]

\* C19: the table snapshots holds at most one record for each date.
C19_OneSnapshotPerDate ==
    d1.pc = "on" =>
        \A i \in 1 .. Len(d1.snapshots), j \in 1 .. Len(d1.snapshots) :
            d1.snapshots[i].date = d1.snapshots[j].date => i = j

\* C21: a process has at most one scheduler_loop task: a ready event creates
\* one only when none was created before, however many ready events follow;
\* and the loop reads the clock for a new tick only from its sleep, after
\* the tick before it has ended: with all plans handled and the capture
\* trigger evaluated, or in the handler of its exception.
C21_OneLoopNoOverlap ==
    [][ /\ loop_tasks' <= 1
        /\ loop_tasks' # loop_tasks =>
                \/ (~scheduler_started /\ loop_tasks = 0 /\ loop_tasks' = 1)
                \/ epoch' # epoch
        /\ reconnects' # reconnects => (loop_tasks' = 1 /\ pc' = pc)
        /\ now' # now =>
                /\ pc = "idle" /\ pc' = "plan" /\ planPos' = 1 /\ loop_tasks = 1
                /\ slept = 30 => (captureChecked /\ tickErr = "none"
                                  /\ planPos = Len(SCHEDULE_PLANS))
                /\ slept = 5 => tickErr # "none"
                /\ slept = 0 => (called = {} /\ ~captureChecked)
        /\ (pc \in {"plan", "capture", "capture_run"} /\ epoch' = epoch) =>
                (now' = now /\ pc' \in {"plan", "capture", "capture_run", "idle"})
      ]_vars

\* a second ready event reached the process, which still has one loop, and
\* that loop is in a tick that follows a tick in which it sent a message
C21_Witness ==
    /\ reconnects = 1 /\ loop_tasks = 1 /\ scheduler_started
    /\ pc = "plan"
    /\ \E r \in LogEntries : r.epoch = epoch /\ r.outcome = "sent" /\ r.at < now.sec

\* no day of the cycle has an event in the queried document
NoEventAnywhere ==
    \A n \in 1 .. CYCLE_LENGTH :
        events_for_day(qy.doc, n) = [err |-> "none", v |-> << >>]

\* C22: every pass of the forward scan and of the backward scan inspects
\* one more day and either ends the scan or moves to the next day, a scan
\* never inspects more than cycle_length days, and it returns "none found"
\* only after cycle_length days; on a document without an event on any day
\* of the cycle both scans return "none found", without an exception, and
\* the forward scan returns "none found" on no other document.
C22_ScansBounded ==
    [][ qy.pc \in {"forward", "backward"} =>
            /\ qy'.inspected <= CYCLE_LENGTH
            /\ qy'.pc = qy.pc =>
                    (qy'.step = qy.step + 1 /\ qy'.inspected = qy.inspected + 1)
            /\ qy'.pc \in {"found", "none", "raised"} \/ qy'.pc = qy.pc
            /\ qy'.pc = "none" =>
                    (qy.inspected = CYCLE_LENGTH /\ qy'.ev = NoEvent
                     /\ qy'.err = "none")
            /\ NoEventAnywhere => (qy'.pc \in {qy.pc, "none"} /\ qy'.err = "none")
            /\ (qy.pc = "forward" /\ qy'.pc = "none") => NoEventAnywhere
      ]_vars

\* the forward scan has gone over the fourteen empty days of a document
\* and returned "none found"
C22_Witness ==
    /\ qy.pc = "none" /\ qy.kind = "forward" /\ qy.inspected = CYCLE_LENGTH
    /\ qy.doc = DaysDoc(1 .. CYCLE_LENGTH, << >>)

\* the backward scan has gone over fourteen days and found no event at or
\* before now, though today has one later in the day
C22_WitnessBackward ==
    /\ qy.pc = "none" /\ qy.kind = "backward" /\ qy.inspected = CYCLE_LENGTH
    /\ ~NoEventAnywhere

\* the list of day d as the document holds it
DayList(doc, d) ==
    LET days == Get(doc, "days").v
        spec == IF d \in DOMAIN days THEN days[d] ELSE ListV(<< >>)
    IN IF spec.t = "dict"
       THEN (IF "events" \in DOMAIN spec.v THEN spec.v["events"].v ELSE << >>)
       ELSE spec.v

\* the position of event e in list l
PosIn(l, e) == CHOOSE i \in 1 .. Len(l) : l[i] = e

\* minutes since midnight of an event whose time the dispatcher accepts
ClockOf(e) == parse_time(e).hh * 60 + parse_time(e).mm

\* C23: the list get_events_for_day returns holds the events of the day,
\* each once; of two events whose times the dispatcher accepts (hour and
\* minute parse as integers of a clock time) the one with the earlier clock
\* time comes first, and two with the same clock time come in the order of
\* the document.
C23_SortedByClockTime ==
    qy.pc = "listed" =>
        LET l == qy.list
            raw == DayList(qy.doc, qy.day)
        IN /\ Len(l) = Len(raw)
           /\ \A i \in 1 .. Len(raw) : \E j \in 1 .. Len(l) : l[j] = raw[i]
           /\ \A i \in 1 .. Len(l), j \in 1 .. Len(l) :
                (i < j /\ parse_time(l[i]).status = "ok"
                       /\ parse_time(l[j]).status = "ok") =>
                    /\ ClockOf(l[i]) <= ClockOf(l[j])
                    /\ ClockOf(l[i]) = ClockOf(l[j]) =>
                            PosIn(raw, l[i]) < PosIn(raw, l[j])

\* the number a field of a fetched row holds: an int or a string of
\* digits; -1 stands for a field without a number
NumberOf(x) ==
    CASE x.t = "int" -> x.v
      [] x.t = "str" /\ x.v # << >> /\ (\A i \in 1 .. Len(x.v) : IsDigit(x.v[i])) ->
            DigitsValue(x.v, 0)
      [] OTHER -> -1

\* the player id of a fetched row, under either of its two keys
RowId(p) ==
    IF NumberOf(Get(p, "player_id")) > 0 THEN NumberOf(Get(p, "player_id"))
    ELSE NumberOf(Get(p, "playerId"))

\* the row has a positive player id and meets both thresholds
MeetsThresholds(p) ==
    /\ RowId(p) > 0
    /\ NumberOf(Get(p, "battles")) >= 10000
    /\ NumberOf(Get(p, "points")) >= 5000000

\* id, battles and points of the rows that meet the thresholds, in order
RECURSIVE ExpectedRows(_)
ExpectedRows(rows) ==
    IF rows = << >> THEN << >>
    ELSE (IF MeetsThresholds(Head(rows))
          THEN << [player_id |-> RowId(Head(rows)),
                   battles |-> NumberOf(Get(Head(rows), "battles")),
                   points |-> NumberOf(Get(Head(rows), "points"))] >>
          ELSE << >>) \o ExpectedRows(Tail(rows))

\* C24: the rows build_daily_rows returns are, in the order of the input,
\* the rows with a positive player id whose battles are at least 10 000
\* and whose points are at least 5 000 000 (a value equal to its threshold
\* is kept), with their id, battles and points; every other row is dropped.
C24_FilterByThresholds ==
    fr.pc \in {"filtered", "named"} =>
        /\ [i \in 1 .. Len(fr.out) |->
                [player_id |-> fr.out[i].player_id.v,
                 battles |-> fr.out[i].battles.v,
                 points |-> fr.out[i].points.v]] = ExpectedRows(fr.rows)
        /\ \A i \in 1 .. Len(fr.out) :
                /\ fr.out[i].player_id.v > 0
                /\ fr.out[i].battles.v >= 10000
                /\ fr.out[i].points.v >= 5000000

\* of two fetched rows, the first has 9 999 battles and was dropped, the
\* second has exactly 10 000 battles and 5 000 000 points and was kept
C24_Witness ==
    /\ fr.pc = "filtered" /\ Len(fr.rows) = 2 /\ Len(fr.out) = 1
    /\ Get(fr.rows[1], "battles") = IntV(9999)
    /\ Get(fr.rows[1], "points") = IntV(5000000)
    /\ Get(fr.rows[1], "player_id") = IntV(1)
    /\ fr.out[1].player_id = IntV(2)
    /\ fr.out[1].battles = IntV(10000) /\ fr.out[1].points = IntV(5000000)

\* C25: after the name step of a capture run, every fetched row that passes
\* the filter and carries a player name and a guild name has a name stored
\* for its player id and for its guild id, and the name stored before the
\* run for player 1 is still the stored one.
C25_NamesInsertedIfAbsent ==
    fr.pc = "named" =>
        /\ \A i \in 1 .. Len(fr.rows) :
                (MeetsThresholds(fr.rows[i]) /\ Truthy(Get(fr.rows[i], "player_name"))
                    /\ Truthy(Get(fr.rows[i], "guild_name"))) =>
                    /\ RowId(fr.rows[i]) \in DOMAIN fr.player_names
                    /\ NumberOf(Get(fr.rows[i], "guild_id")) \in DOMAIN fr.guild_names
        /\ fr.player_names[1] = NameOld

RECURSIVE SumOf(_)
SumOf(s) == IF s = << >> THEN 0 ELSE Head(s) + SumOf(Tail(s))

EntriesOf(key) ==
    { r \in BagToSet(log) : r.key = key /\ r.epoch = epoch }

\* C27: for every event the tick has found due, _send_event was called
\* for every resolved channel of the plan under the key of that channel,
\* the key is in the ledger, and this run of the process has handled the
\* key at most once (sent, failed or empty): a failed send to one channel
\* leaves the calls for the other channels of the plan in place.
C27_EveryDestination ==
    \A e \in evaluated :
        IsDue(now.sec, e.hm[1] * 3600 + e.hm[2] * 60) =>
            \A i \in 1 .. Len(channels[e.plan]) :
                LET key == MsgKey(channels[e.plan][i], now.date, e.hm[1],
                                  e.hm[2], e.idx)
                IN /\ key \in called
                   /\ key \in sent_cache
                   /\ \A r \in EntriesOf(key) : CopiesIn(r, log) = 1
                   /\ Cardinality(EntriesOf(key)) <= 1
                   /\ (\E j \in 1 .. Len(channels[e.plan]) :
                          \E r \in EntriesOf(MsgKey(channels[e.plan][j], now.date,
                                                   e.hm[1], e.hm[2], e.idx)) :
                              r.at = now.sec /\ r.outcome = "failed")
                        => (i > 1 => \E r \in EntriesOf(key) :
                                        r.at = now.sec /\ r.outcome = "sent")

\* in one tick the send of a due event to the first channel of a plan
\* failed and the send to the second channel went out
C27_Witness ==
    \E e \in evaluated :
        /\ Len(channels[e.plan]) = 2
        /\ \E r \in EntriesOf(MsgKey(channels[e.plan][1], now.date, e.hm[1],
                                     e.hm[2], e.idx)) :
                r.at = now.sec /\ r.outcome = "failed"
        /\ \E r \in EntriesOf(MsgKey(channels[e.plan][2], now.date, e.hm[1],
                                     e.hm[2], e.idx)) :
                r.at = now.sec /\ r.outcome = "sent"

\* the tasks that are inside "async with _sent_cache_lock"
InLock ==
    { t \in LedgerTasks :
        lk.tasks[t].pc \in {"test", "insert", "release", "return", "clear",
                            "clear_release"} }

\* C28: a task that tests, inserts into or clears the ledger holds the
\* lock and is the only task inside the lock; among the tasks that have
\* tested a key since the ledger was last cleared exactly one has found it
\* absent, and the key is in the ledger once that task has inserted it.
C28_LedgerUnderLock ==
    lk.pc = "on" =>
        /\ InLock # {} => lk.locked
        /\ Cardinality(InLock) <= 1
        /\ \A k \in LedgerKeys :
            /\ lk.tested[k] # {} => Len(lk.absent[k]) = 1
            /\ lk.tested[k] = {} => Len(lk.absent[k]) = 0 /\ k \notin lk.ledger
            /\ k \in lk.ledger => Len(lk.absent[k]) = 1

\* the tick and the other task have both tested the key of the event at
\* 00:00 since the last clear; the other task found it absent and the
\* tick found it present
C28_Witness ==
    /\ lk.pc = "on"
    /\ lk.tested[KeyShared] = {TickTask, DemandTask}
    /\ lk.absent[KeyShared] = << DemandTask >>
    /\ KeyShared \in lk.ledger
    /\ lk.tasks[DemandTask].pc = "send"

\* C29: a tick that has ended (the loop sleeps 30 or 5) has evaluated the
\* capture trigger, whatever its dispatch part did.
C29_CaptureCheckedEveryTick ==
    (pc = "idle" /\ slept \in {5, 30}) => captureChecked

\* the positions of the loop inside a tick
InTick == {"plan", "capture", "capture_run"}

\* C30: within one run of the process, a tick ends only at the test of the
\* loop ("idle"), after a pause of 5 when an exception was raised in it and
\* of 30 otherwise; the scheduler task ends ("dead") only before its first
\* tick, and the loop is left only when the client is closed; from the
\* test of the loop the next tick begins whenever a later instant is left.
C30_ExceptionKeepsLoop ==
    [][/\ (pc \in InTick /\ pc' \notin InTick /\ epoch' = epoch) =>
            /\ pc' = "idle"
            /\ slept' = IF tickErr' = "none" THEN 30 ELSE 5
       /\ (pc' = "dead" /\ pc # "dead") => pc = "init"
       /\ (pc' = "down" /\ pc # "down") => pc = "idle"
       /\ (pc = "idle" /\ pc' # "idle") => pc' \in {"plan", "down", "start"}
       /\ (pc = "idle" /\ \E t \in Instants :
                /\ Before(now, t)
                /\ capture.st = "done" =>
                        (t.date > now.date \/ t.sec > capture.until))
            => ENABLED BeginTick
      ]_vars

\* a tick has ended with an exception, the loop has paused 5 and the next
\* tick can begin
C30_Witness ==
    /\ pc = "idle" /\ tickErr # "none" /\ slept = 5 /\ ~captureChecked
    /\ ENABLED BeginTick

\* C31: after a refresh or a query that raised on a file that does not
\* parse, the cache and the stored modification times of all paths are what
\* the operation found (the cached document is one of the complete
\* documents or there is none), and when the file's modification time
\* differs from the stored one or nothing is cached, the next refresh,
\* forced or not, reads the file again.
C31_FailedParseKeepsEntry ==
    (store_op.op \in {"load", "get"} /\ store_op.err # "none") =>
        /\ store_op.read /\ store_op.file.doc = "malformed"
        /\ schedule_cache = store_op.cache
        /\ schedule_mtimes = store_op.mtimes
        /\ schedule_cache[store_op.p] \in StoreContents \cup {"EMPTY", NoEntry}
        /\ schedule_cache[store_op.p] # "malformed"
        /\ SignatureChanged =>
            \A force \in BOOLEAN :
                LET again == load_single_schedule([cache |-> schedule_cache,
                                                   mtimes |-> schedule_mtimes],
                                                  disk[store_op.p], store_op.p, force)
                IN again.read /\ again.err = "JSONDecodeError"

\* a non-forced refresh found the cached document "good" of modification
\* time 1 and a file of modification time 2 that does not parse, raised and
\* left the entry as it was
C31_Witness ==
    /\ store_op.op = "load" /\ ~store_op.force /\ store_op.err = "JSONDecodeError"
    /\ store_op.file = [doc |-> "malformed", mtime |-> 2]
    /\ store_op.cache[store_op.p] = "good" /\ store_op.mtimes[store_op.p] = 1
    /\ schedule_cache[store_op.p] = "good" /\ schedule_mtimes[store_op.p] = 1

\* C32: an event whose image is null resolves to an event without an image
\* key, whatever image the template it uses has; an event without an image
\* key that uses a template of the document resolves to the template's
\* image when that image is not null, and to no image key otherwise.
C32_NullImageSuppressesTemplate ==
    rv.pc = "done" =>
        /\ ("image" \in DOMAIN rv.event /\ rv.event["image"] = NoneV) =>
                "image" \notin DOMAIN rv.out
        /\ ("image" \notin DOMAIN rv.event /\ TemplatePresent
                /\ Templates[UsedTemplateName.v].v # EmptyDict) =>
                LET t == Templates[UsedTemplateName.v].v
                IN IF "image" \in DOMAIN t /\ t["image"] # NoneV
                   THEN "image" \in DOMAIN rv.out /\ rv.out["image"] = t["image"]
                   ELSE "image" \notin DOMAIN rv.out
        /\ ("image" \in DOMAIN rv.event /\ rv.event["image"] # NoneV) =>
                "image" \in DOMAIN rv.out /\ rv.out["image"] = rv.event["image"]

\* the event {use: T, image: null} was resolved against a template T with
\* the image x.png and has no image key
C32_Witness ==
    /\ rv.pc = "done" /\ TemplatePresent
    /\ "image" \in DOMAIN rv.event /\ rv.event["image"] = NoneV
    /\ Get(Templates[UsedTemplateName.v].v, "image") = Str(<< "x", ".", "p", "n", "g" >>)
    /\ "image" \notin DOMAIN rv.out /\ "text" \in DOMAIN rv.out

\* what is left of the pieces of a text once the comments are taken out: a
\* line comment and a # comment run to the end of the line, whose newline
\* stays; ok is FALSE when a # piece does not start its line, a text the
\* claim says nothing about
RECURSIVE WithoutComments(_, _, _)
WithoutComments(toks, inLine, atStart) ==
    IF toks = << >> THEN [ok |-> TRUE, kept |-> << >>]
    ELSE LET tok == Head(toks)
             keep(rest) == [ok |-> rest.ok, kept |-> << tok >> \o rest.kept]
         IN IF inLine
            THEN (IF tok = << NL >>
                  THEN keep(WithoutComments(Tail(toks), FALSE, TRUE))
                  ELSE WithoutComments(Tail(toks), TRUE, atStart))
            ELSE IF tok = TLine THEN WithoutComments(Tail(toks), TRUE, atStart)
            ELSE IF tok = TBlock THEN WithoutComments(Tail(toks), FALSE, FALSE)
            ELSE IF tok = THash
            THEN (IF atStart THEN WithoutComments(Tail(toks), TRUE, atStart)
                  ELSE [ok |-> FALSE, kept |-> << >>])
            ELSE IF tok = << NL >> THEN keep(WithoutComments(Tail(toks), FALSE, TRUE))
            ELSE IF tok = << " " >> THEN keep(WithoutComments(Tail(toks), FALSE, atStart))
            ELSE keep(WithoutComments(Tail(toks), FALSE, FALSE))

\* the piece at position i is a comma and the next piece that is not white
\* space is a closing bracket
TrailingComma(kept, i) ==
    /\ kept[i] = << "," >>
    /\ LET solid == { k \in (i + 1) .. Len(kept) : kept[k] \notin {<< " " >>, << NL >>} }
       IN solid # {} /\ kept[CHOOSE k \in solid : \A m \in solid : k <= m] = << "]" >>

RECURSIVE WithoutTrailingCommas(_, _)
WithoutTrailingCommas(kept, i) ==
    IF i > Len(kept) THEN << >>
    ELSE (IF TrailingComma(kept, i) THEN << >> ELSE kept[i])
         \o WithoutTrailingCommas(kept, i + 1)

\* the text has no comment and no comma before a closing bracket
StrictPieces(toks) ==
    /\ \A i \in 1 .. Len(toks) : toks[i] \notin {TLine, TBlock, THash}
    /\ \A i \in 1 .. Len(toks) : ~TrailingComma(toks, i)

\* C33: both loops of strip_comments_and_trailing_commas end after at most
\* one pass per character; for a text whose # comments start their lines
\* the result is the text without its comments (the newline that ends a
\* line comment stays) and without the commas that only white space or
\* comments separate from a closing bracket, the string literals unchanged;
\* a text without comments and trailing commas is returned unchanged.
C33_StripComments ==
    jx.pc = "done" =>
        LET expected == WithoutComments(jx.toks, FALSE, TRUE)
        IN /\ jx.iters1 <= Len(jx.text) /\ jx.iters2 <= Len(jx.text2)
           /\ expected.ok =>
                /\ jx.text2 = Flatten(expected.kept)
                /\ jx.out = WithoutTrailingCommas(expected.kept, 1)
           /\ StrictPieces(jx.toks) => jx.out = jx.text

\* the text  "//,]",/*"]*/]  came out as  "//,]"]
C33_Witness ==
    /\ jx.pc = "done"
    /\ jx.toks = << TStrA, << "," >>, TBlock, << "]" >> >>
    /\ jx.out = TStrA \o << "]" >>

\* the time of the event is written as digits, a colon, digits
ClockTimed(ev) ==
    /\ "time" \in DOMAIN ev /\ ev["time"].t = "str"
    /\ LET parts == Split(ev["time"].v, ":")
       IN /\ Len(parts) = 2
          /\ \A k \in 1 .. 2 :
                parts[k] # << >> /\ \A i \in 1 .. Len(parts[k]) : IsDigit(parts[k][i])

ClockHour(ev) == DigitsValue(Split(ev["time"].v, ":")[1], 0)
ClockMinute(ev) == DigitsValue(Split(ev["time"].v, ":")[2], 0)

InSeq(x, s) == \E i \in 1 .. Len(s) : s[i] = x

\* sub is what is left of s when some of its elements are removed
RECURSIVE IsSubsequence(_, _)
IsSubsequence(sub, s) ==
    IF sub = << >> THEN TRUE
    ELSE IF s = << >> THEN FALSE
    ELSE IF Head(sub) = Head(s) THEN IsSubsequence(Tail(sub), Tail(s))
    ELSE IsSubsequence(sub, Tail(s))

\* the events of s that have a clock time are in the order of the clock
InClockOrder(s) ==
    \A i, j \in 1 .. Len(s) :
        (i < j /\ ClockTimed(s[i]) /\ ClockTimed(s[j])) =>
            ClockHour(s[i]) * 60 + ClockMinute(s[i])
                <= ClockHour(s[j]) * 60 + ClockMinute(s[j])

\* C34: of the events of the day that have a clock time, the morning
\* selection holds those with hour < 12 and the evening selection those
\* with hour >= 12, so each of them is in exactly one selection and 12:00
\* is evening; the selection that is sent keeps the order of the day's
\* list, which is the order of the clock whenever the day's list is.
C34_HalfDayPartition ==
    (qy.kind = "half" /\ qy.pc = "listed") =>
        LET morning == selected_of(qy.evs, "morning")
            evening == selected_of(qy.evs, "evening")
        IN /\ qy.list = IF qy.half = "morning" THEN morning ELSE evening
           /\ \A i \in 1 .. Len(qy.evs) :
                ClockTimed(qy.evs[i]) =>
                    /\ InSeq(qy.evs[i], morning) <=> ClockHour(qy.evs[i]) < 12
                    /\ InSeq(qy.evs[i], evening) <=> ClockHour(qy.evs[i]) >= 12
                    /\ InSeq(qy.evs[i], morning) # InSeq(qy.evs[i], evening)
           /\ Len(morning) + Len(evening)
                = Cardinality({ i \in 1 .. Len(qy.evs) : ClockTimed(qy.evs[i]) })
           /\ IsSubsequence(qy.list, qy.evs)
           /\ InClockOrder(qy.evs) => InClockOrder(qy.list)

\* the evening of a day with events at 13:00, 12:00 and 09:30, in this
\* order in the document: 12:00 and 13:00 are sent, in this order
C34_Witness ==
    /\ qy.kind = "half" /\ qy.pc = "listed" /\ qy.half = "evening"
    /\ qy.evs = << Ev(T0930, << "C" >>), Ev(T1200, << "B" >>), Ev(T1300, << "A" >>) >>
    /\ qy.list = << Ev(T1200, << "B" >>), Ev(T1300, << "A" >>) >>

\* the entries of the log for messages that went out
SentEntries == { e \in BagToSet(log) : e.outcome = "sent" /\ e.key.kind = "msg" }

\* C35: within one run of the process no event goes out twice to the same
\* destination on the same date, also when the document is edited and
\* reloaded between two ticks of its grace window (the documents of the
\* model hold at most one event per time of day, so two entries for the
\* same destination, date and time are the same event).
C35_NoResendAfterReload ==
    \A e1, e2 \in SentEntries :
        (e1.epoch = e2.epoch /\ e1.key.ch = e2.key.ch /\ e1.key.date = e2.key.date
           /\ e1.key.hm = e2.key.hm)
        => e1.key.idx = e2.key.idx

\* C36: every message of the log went out in a tick of the date of its
\* scheduled instant, at or after that instant and at most
\* SEND_MISSED_WITHIN_MINUTES after it; a tick shortly after midnight sends
\* nothing for an event at 23:55.
C36_SentOnScheduledDate ==
    /\ \A e \in BagToSet(log) :
        e.key.kind = "msg" =>
            /\ e.key.date = now.date
            /\ e.key.hm[1] * 3600 + e.key.hm[2] * 60 <= e.at
            /\ e.at <= e.key.hm[1] * 3600 + e.key.hm[2] * 60
                        + SEND_MISSED_WITHIN_MINUTES * 60
    /\ \A k \in sent_cache : k.kind = "msg" => k.date = now.date
    /\ (now.sec <= 240 /\ pc \in {"plan", "capture", "idle"}) =>
        ~\E k \in called : k.hm = << 23, 55 >>

\* the first tick is at 00:00:00 of the second date: the event at 23:55 of
\* plan 1 was looked at and nothing was sent or recorded
C36_Witness ==
    /\ now = [date |-> FirstDate + 1, sec |-> 0]
    /\ pc = "capture"
    /\ channels[1] # << >>
    /\ disk[1].doc = "late"
    /\ [plan |-> 1, idx |-> 0, hm |-> << 23, 55 >>] \in evaluated
    /\ sent_cache = {} /\ log = EmptyBag /\ cleared = {}

\* the entries of the log for starts of the capture job on the date of now
StartsToday ==
    { r \in BagToSet(log) :
        r.outcome = "capture_started" /\ r.key = CaptureKey(now.date) }

\* C37 as stated: the capture job does not start twice on one date
C37_NeverRetriedOnDate ==
    /\ Cardinality(StartsToday) <= 1
    /\ \A r \in StartsToday : CopiesIn(r, log) = 1

\* C37: within one run of the process the capture job starts at most once
\* per date; its key is in the ledger while it runs and after it returned,
\* whatever step of it failed, and with that ledger the trigger starts
\* nothing at any instant of the date.
C37_NoRetryWithinRun ==
    /\ \A r1, r2 \in StartsToday : r1.epoch = r2.epoch => r1 = r2
    /\ \A r \in StartsToday : CopiesIn(r, log) = 1
    /\ (pc = "capture_run" \/ capture.st = "done") =>
        /\ CaptureKey(now.date) \in sent_cache
        /\ \A s \in NowSecs(now.date) :
            LET r == run_daily_snapshot_if_due(sent_cache,
                                               [date |-> now.date, sec |-> s])
            IN ~r.start /\ r.ledger = sent_cache

\* the job that the tick of 04:00:00 started has returned after a failed
\* fetch; its key is in the ledger and the trigger would not start it at
\* 04:10:00
C37_Witness ==
    /\ pc = "idle" /\ now.sec = 14400
    /\ capture.st = "done" /\ capture.fail = "fetch"
    /\ CaptureKey(now.date) \in sent_cache
    /\ IsDue(15000, 4 * 3600)
    /\ ~run_daily_snapshot_if_due(sent_cache, [date |-> now.date, sec |-> 15000]).start

C39_InitFailureSurvived ==
    [][ (pc = "dead" /\ reconnects' # reconnects) => pc' \in {"init", "idle"} ]_vars

\* C40: after the plan steps of a tick, every event the tick found due has
\* an entry of the scheduler in the log of this run for every channel of
\* its plan, whatever previews were made before or during the tick.
C40_NoSuppression ==
    (pc \in {"capture", "capture_run", "idle"} /\ tickErr = "none") =>
        \A e \in evaluated :
            IsDue(now.sec, e.hm[1] * 3600 + e.hm[2] * 60) =>
                \A i \in 1 .. Len(channels[e.plan]) :
                    \E r \in BagToSet(log) :
                        /\ r.key = MsgKey(channels[e.plan][i], now.date,
                                          e.hm[1], e.hm[2], e.idx)
                        /\ r.epoch = epoch
                        /\ r.outcome \in {"sent", "failed", "empty"}

====
